---- MODULE Spec2Model ----
(***************************************************************************)
(* Morchid Hub backend: the guide discovery and reputation engine.         *)
(*                                                                         *)
(* The model covers the review handlers (backend/app/reviews.py), the      *)
(* guide route handlers (backend/app/main.py), the admin approval handlers *)
(* (backend/app/admin.py) and the route search (backend/app/search.py).    *)
(*                                                                         *)
(* Every request runs in its own SQLAlchemy session (database.py get_db):  *)
(* autocommit=False, autoflush=False, PostgreSQL default isolation READ    *)
(* COMMITTED.  A statement of a session sees the committed rows plus the   *)
(* session's own flushed, uncommitted writes.  A session that ends without *)
(* commit is rolled back by db.close().  One step of the model is one SQL  *)
(* statement (or one db.commit()) of one request.                          *)
(*                                                                         *)
(* average_rating is kept in tenths (44 stands for 4.4).                   *)
(***************************************************************************)
EXTENDS Integers, Sequences, FiniteSets, TLC

(***************************************************************************)
(* Bounds of the model.                                                    *)
(***************************************************************************)
MaxReviews == 3   \* review rows ever inserted (ids 1..MaxReviews)
MaxRoutes  == 2   \* route rows ever inserted (ids 1..MaxRoutes)
MaxOverlaps == 1  \* requests that start while another request is still open

(***************************************************************************)
(* Population: rows of users and guides as register_user leaves them.      *)
(***************************************************************************)
Users    == {"u1", "u2", "u3", "t1", "t2", "t3", "t4", "t5", "a1"}
Guides   == {"g1", "g2", "g3"}

\* the users and guides that send requests in the review and route runs
CoreUsers  == {"u1", "u2", "t1", "t2", "t3", "a1"}
CoreGuides == {"g1", "g2"}
Txns     == {1, 2}

\* Guide.user_id (unique, one guide profile per owning user)
GuideOwner == [g \in Guides |-> IF g = "g1" THEN "u1" ELSE IF g = "g2" THEN "u2" ELSE "u3"]

\* User.is_admin: False for every registered user, set out of band
IsAdmin(u) == u = "a1"

\* User.role as register_user stores it ("tourist" or "guide"); the row of
\* the administrator is written out of band
RegisteredRole(u) ==
    IF u \in {"u1", "u2", "u3"} THEN "guide"
    ELSE IF u = "a1" THEN "admin" ELSE "tourist"

NoId    == 0          \* NULL foreign key / no row
NoGuide == "g0"       \* a guide id that matches no row
EmptyId == -1         \* the empty string sent as an id: not NULL, no row has it

\* ratings a request may carry; ReviewCreate admits 1..5
RatingInputs == {4, 5}

\* Row ids are uuid4 values (models.py generate_uuid); the model names them
\* 1, 2, ... in the order in which their rows are committed.
VARIABLES
    role,             \* users.role
    is_active,        \* users.is_active
    approval_status,  \* guides.approval_status
    is_verified,      \* guides.is_verified
    total_reviews,    \* guides.total_reviews
    average_rating,   \* guides.average_rating, in tenths
    reviews,          \* committed rows of table reviews
    routes,           \* committed rows of table guide_routes
    next_review_id,   \* next fresh reviews.id
    next_route_id,    \* next fresh guide_routes.id
    txn,              \* the open session of each request slot
    overlaps,         \* requests started so far while another one was open
    response          \* the response the current step returns, if any

vars == <<role, is_active, approval_status, is_verified, total_reviews, average_rating,
          reviews, routes, next_review_id, next_route_id, txn, overlaps, response>>

\* the committed database
db == <<role, is_active, approval_status, is_verified, total_reviews, average_rating,
        reviews, routes>>

(***************************************************************************)
(* Sessions.                                                               *)
(***************************************************************************)
Idle == [op |-> "idle", pc |-> "idle", user |-> "none", guide_id |-> NoGuide,
         rating |-> 0, route_id |-> NoId, target |-> NoId,
         loaded_total |-> 0, loaded_avg |-> 0, new_total |-> 0, new_avg |-> 0,
         deactivated |-> {}, start_address |-> <<>>, end_address |-> <<>>,
         geometry |-> [coordinates |-> <<>>, start_point |-> <<>>, end_point |-> <<>>]]

\* a NULL text column or an omitted text parameter
NullStr == <<"NULL">>

NoFilters == [q |-> NullStr, city |-> "none", specialty |-> "none",
              language |-> "none", min_experience |-> -1, min_rating |-> -1,
              min_eco_score |-> -1, verified_only |-> FALSE,
              route_query |-> NullStr, include_without_route |-> FALSE,
              limit |-> 20, offset |-> 0]

\* no filter, guides without a route included
WithoutRouteIncluded == [NoFilters EXCEPT !.include_without_route = TRUE]

\* the handler that answers, its status code, and the rows of a search
NoResponse == [op |-> "none", code |-> "NONE", rows |-> <<>>]

Resp(o, c) == [op |-> o, code |-> c, rows |-> <<>>]

Quiescent == \A t \in Txns : txn[t].op = "idle"

\* a request takes the first free session slot; serial runs admit one
\* request at a time; a request that starts while another is open is counted
CanBegin(t, serial) ==
    /\ txn[t].op = "idle"
    /\ \A o \in Txns : o < t => txn[o].op # "idle"
    /\ serial => Quiescent
    /\ IF Quiescent
       THEN UNCHANGED overlaps
       ELSE overlaps < MaxOverlaps /\ overlaps' = overlaps + 1

\* get_current_user: the token resolves to a user row that is active
Authenticated(u) == u \in Users /\ is_active[u]


(***************************************************************************)
(* Reputation aggregate (reviews.py _recalculate_guide_rating).            *)
(***************************************************************************)
RECURSIVE SumRatings(_)
SumRatings(S) ==
    IF S = {} THEN 0
    ELSE LET r == CHOOSE x \in S : TRUE
         IN  r.rating + SumRatings(S \ {r})

\* rows of reviews that the statements of session t see
ReviewsSeenBy(t) ==
    LET kept == IF txn[t].op = "delete_review" /\ txn[t].pc \in {"load_guide", "recalc", "commit"}
                THEN {r \in reviews : r.id # txn[t].target}
                ELSE reviews
        own  == IF txn[t].op = "create_review" /\ txn[t].pc \in {"recalc", "commit"}
                THEN {[id |-> next_review_id, guide_id |-> txn[t].guide_id,
                       tourist_id |-> txn[t].user, rating |-> txn[t].rating,
                       route_id |-> txn[t].route_id]}
                ELSE {}
    IN  kept \cup own

\* a mutation of RoundTenths: truncation instead of rounding
RoundTenthsTruncated(sum, cnt) == (10 * sum) \div cnt

\* round(float(row.avg), 1): the mean sum/cnt to the nearest tenth, an exact
\* half (x.25, x.75 are exact doubles) going to the even tenth; in tenths.
\* Exact for cnt < 20, where every tie of sum/cnt is a multiple of 0.25.
RoundTenths(sum, cnt) ==
    LET q == (10 * sum) \div cnt
        r == (10 * sum) % cnt
    IN  IF 2 * r < cnt THEN q
        ELSE IF 2 * r > cnt THEN q + 1
        ELSE IF q % 2 = 0 THEN q ELSE q + 1

\* row.cnt of the aggregate query of session t for guide g
AggCount(t, g) == Cardinality({r \in ReviewsSeenBy(t) : r.guide_id = g})

\* round(float(row.avg), 1) if row.avg else 0.0
AggAverage(t, g) ==
    LET S == {r \in ReviewsSeenBy(t) : r.guide_id = g}
    IN  IF S = {} THEN 0 ELSE RoundTenths(SumRatings(S), Cardinality(S))

\* the flush of a dirty Guide at commit: only attributes whose value differs
\* from the loaded one are written
\* a mutation of FlushedTotal: the UPDATE is not restricted to the guide
FlushedTotalEveryGuide(t) == [g \in Guides |-> txn[t].new_total]

FlushedTotal(t) ==
    IF txn[t].guide_id \in Guides /\ txn[t].new_total # txn[t].loaded_total
    THEN [total_reviews EXCEPT ![txn[t].guide_id] = txn[t].new_total]
    ELSE total_reviews

FlushedAverage(t) ==
    IF txn[t].guide_id \in Guides /\ txn[t].new_avg # txn[t].loaded_avg
    THEN [average_rating EXCEPT ![txn[t].guide_id] = txn[t].new_avg]
    ELSE average_rating

(***************************************************************************)
(* POST /api/v1/reviews (reviews.py create_review).                        *)
(***************************************************************************)
\* a mutation of SelfReview: the self-rating check never fires
SelfReviewUnchecked(u, g) == FALSE

\* step 3: guide.user_id == current_user.id
SelfReview(u, g) == GuideOwner[g] = u

\* a mutation of ExistingReview: the duplicate lookup finds nothing
ExistingReviewUnchecked(t) == FALSE

\* step 4: a review of (guide_id, current_user.id) is visible to the session
ExistingReview(t) ==
    \E r \in ReviewsSeenBy(t) :
        r.guide_id = txn[t].guide_id /\ r.tourist_id = txn[t].user

\* a mutation of UniquePair: the table carries no uniqueness constraint
UniquePairAbsent == FALSE

\* the reviews table enforces one row per (guide_id, tourist_id)
UniquePair == TRUE

\* the INSERT of session t waits for an open session that holds the same key
InsertBlocked(t) ==
    /\ UniquePair
    /\ \E o \in Txns \ {t} :
          \/ /\ txn[o].op = "create_review"
             /\ txn[o].pc \in {"recalc", "commit"}
             /\ txn[o].guide_id = txn[t].guide_id
             /\ txn[o].user = txn[t].user
          \/ /\ txn[o].op = "delete_review"
             /\ txn[o].pc \in {"load_guide", "recalc", "commit"}
             /\ \E r \in reviews : /\ r.id = txn[o].target
                                   /\ r.guide_id = txn[t].guide_id
                                   /\ r.tourist_id = txn[t].user

\* the INSERT of session t hits a committed row with the same key
InsertViolatesUnique(t) ==
    /\ UniquePair
    /\ \E r \in reviews : r.guide_id = txn[t].guide_id /\ r.tourist_id = txn[t].user

\* a mutation of RouteForeignKey: reviews.route_id carries no foreign key
RouteForeignKeyAbsent == FALSE

\* reviews.route_id is a foreign key to guide_routes.id
RouteForeignKey == TRUE

\* the INSERT of session t names a route that has no committed row
InsertViolatesRouteKey(t) ==
    /\ RouteForeignKey
    /\ txn[t].route_id # NoId
    /\ ~\E r \in routes : r.id = txn[t].route_id

\* steps 1-3: role check, guide lookup (is_verified), self-rating check
CreateReviewBegin(t, u, g, rating, rid, serial) ==
    /\ CanBegin(t, serial)
    /\ Authenticated(u)
    /\ \/ /\ role[u] # "tourist"
          /\ response' = Resp("create_review", "FORBIDDEN_ROLE")
          /\ UNCHANGED txn
       \/ /\ role[u] = "tourist"
          /\ ~(g \in Guides /\ is_verified[g])
          /\ response' = Resp("create_review", "GUIDE_NOT_FOUND")
          /\ UNCHANGED txn
       \/ /\ role[u] = "tourist"
          /\ g \in Guides /\ is_verified[g]
          /\ SelfReview(u, g)
          /\ response' = Resp("create_review", "SELF_REVIEW")
          /\ UNCHANGED txn
       \/ /\ role[u] = "tourist"
          /\ g \in Guides /\ is_verified[g]
          /\ ~SelfReview(u, g)
          /\ txn' = [txn EXCEPT ![t] =
                [Idle EXCEPT !.op = "create_review", !.pc = "check_existing",
                             !.user = u, !.guide_id = g, !.rating = rating,
                             !.route_id = rid,
                             !.loaded_total = total_reviews[g],
                             !.loaded_avg = average_rating[g],
                             !.new_total = total_reviews[g],
                             !.new_avg = average_rating[g]]]
          /\ response' = NoResponse
    /\ UNCHANGED <<db, next_review_id, next_route_id>>

\* step 5: if review_data.route_id: None and the empty string are falsy
RouteIdGiven(rid) == rid # NoId /\ rid # EmptyId

\* step 4: one review per tourist per guide
CreateReviewCheckExisting(t) ==
    /\ txn[t].op = "create_review" /\ txn[t].pc = "check_existing"
    /\ IF ExistingReview(t)
       THEN /\ txn' = [txn EXCEPT ![t] = Idle]
            /\ response' = Resp("create_review", "REVIEW_ALREADY_EXISTS")
       ELSE /\ txn' = [txn EXCEPT ![t].pc =
                          IF RouteIdGiven(txn[t].route_id) THEN "check_route"
                          ELSE "insert"]
            /\ response' = NoResponse
    /\ UNCHANGED <<db, next_review_id, next_route_id, overlaps>>

\* a mutation of RouteOfGuide: the guide of the route is not compared
RouteOfAnyGuide(t) == \E r \in routes : r.id = txn[t].route_id

\* step 5: filter(GuideRoute.id == route_id, GuideRoute.guide_id == guide_id)
\* finds a row
RouteOfGuide(t) ==
    \E r \in routes : r.id = txn[t].route_id /\ r.guide_id = txn[t].guide_id

\* step 5: the route must exist and belong to the guide
CreateReviewCheckRoute(t) ==
    /\ txn[t].op = "create_review" /\ txn[t].pc = "check_route"
    /\ IF RouteOfGuide(t)
       THEN /\ txn' = [txn EXCEPT ![t].pc = "insert"]
            /\ response' = NoResponse
       ELSE /\ txn' = [txn EXCEPT ![t] = Idle]
            /\ response' = Resp("create_review", "ROUTE_NOT_FOUND")
    /\ UNCHANGED <<db, next_review_id, next_route_id, overlaps>>

\* step 6: db.add(new_review); db.flush(); a violated constraint raises
\* IntegrityError, which global_exception_handler answers with status 500
CreateReviewFlush(t) ==
    /\ txn[t].op = "create_review" /\ txn[t].pc = "insert"
    /\ ~InsertBlocked(t)
    /\ IF InsertViolatesUnique(t) \/ InsertViolatesRouteKey(t)
       THEN /\ txn' = [txn EXCEPT ![t] = Idle]
            /\ response' = Resp("create_review", "INTEGRITY_ERROR")
       ELSE /\ txn' = [txn EXCEPT ![t].pc = "recalc"]
            /\ response' = NoResponse
    /\ UNCHANGED <<db, next_review_id, next_route_id, overlaps>>

\* step 7: _recalculate_guide_rating(guide, db)
CreateReviewRecalc(t) ==
    /\ txn[t].op = "create_review" /\ txn[t].pc = "recalc"
    /\ txn' = [txn EXCEPT ![t].pc = "commit",
                          ![t].new_total = AggCount(t, txn[t].guide_id),
                          ![t].new_avg = AggAverage(t, txn[t].guide_id)]
    /\ response' = NoResponse
    /\ UNCHANGED <<db, next_review_id, next_route_id, overlaps>>

\* step 8: db.commit()
CreateReviewCommit(t) ==
    /\ txn[t].op = "create_review" /\ txn[t].pc = "commit"
    /\ next_review_id <= MaxReviews
    /\ reviews' = reviews \cup
          {[id |-> next_review_id, guide_id |-> txn[t].guide_id,
            tourist_id |-> txn[t].user, rating |-> txn[t].rating,
            route_id |-> txn[t].route_id]}
    /\ next_review_id' = next_review_id + 1
    /\ total_reviews' = FlushedTotal(t)
    /\ average_rating' = FlushedAverage(t)
    /\ txn' = [txn EXCEPT ![t] = Idle]
    /\ response' = Resp("create_review", "CREATED")
    /\ UNCHANGED <<role, is_active, approval_status, is_verified, routes,
                   next_route_id, overlaps>>

(***************************************************************************)
(* DELETE /api/v1/reviews/{review_id} (reviews.py delete_review).          *)
(***************************************************************************)
\* a mutation of MayDelete: the requester is not checked
MayDeleteAnyone(review, u) == TRUE

\* step 2: review.tourist_id == current_user.id or current_user.is_admin
MayDelete(review, u) == review.tourist_id = u \/ IsAdmin(u)

\* steps 1-2: the review must exist; only its author or an admin deletes it
DeleteReviewBegin(t, u, rid, serial) ==
    /\ CanBegin(t, serial)
    /\ Authenticated(u)
    /\ IF ~\E r \in reviews : r.id = rid
       THEN /\ response' = Resp("delete_review", "REVIEW_NOT_FOUND")
            /\ UNCHANGED txn
       ELSE LET review == CHOOSE r \in reviews : r.id = rid
            IN  IF ~MayDelete(review, u)
                THEN /\ response' = Resp("delete_review", "FORBIDDEN")
                     /\ UNCHANGED txn
                ELSE /\ txn' = [txn EXCEPT ![t] =
                            [Idle EXCEPT !.op = "delete_review", !.pc = "flush",
                                         !.user = u, !.guide_id = review.guide_id,
                                         !.target = rid]]
                     /\ response' = NoResponse
    /\ UNCHANGED <<db, next_review_id, next_route_id>>

\* step 3: db.delete(review); db.flush(); waits for the row lock of another
\* session that deletes the same row
DeleteReviewFlush(t) ==
    /\ txn[t].op = "delete_review" /\ txn[t].pc = "flush"
    /\ ~\E o \in Txns \ {t} : /\ txn[o].op = "delete_review"
                              /\ txn[o].pc \in {"load_guide", "recalc", "commit"}
                              /\ txn[o].target = txn[t].target
    /\ txn' = [txn EXCEPT ![t].pc = "load_guide"]
    /\ response' = NoResponse
    /\ UNCHANGED <<db, next_review_id, next_route_id, overlaps>>

\* step 4a: guide = db.query(Guide).filter(Guide.id == guide_id).first()
DeleteReviewLoadGuide(t) ==
    /\ txn[t].op = "delete_review" /\ txn[t].pc = "load_guide"
    /\ txn' = [txn EXCEPT ![t].pc = "recalc",
                          ![t].loaded_total = total_reviews[txn[t].guide_id],
                          ![t].loaded_avg = average_rating[txn[t].guide_id],
                          ![t].new_total = total_reviews[txn[t].guide_id],
                          ![t].new_avg = average_rating[txn[t].guide_id]]
    /\ response' = NoResponse
    /\ UNCHANGED <<db, next_review_id, next_route_id, overlaps>>

\* step 4b: _recalculate_guide_rating(guide, db)
DeleteReviewRecalc(t) ==
    /\ txn[t].op = "delete_review" /\ txn[t].pc = "recalc"
    /\ txn' = [txn EXCEPT ![t].pc = "commit",
                          ![t].new_total = AggCount(t, txn[t].guide_id),
                          ![t].new_avg = AggAverage(t, txn[t].guide_id)]
    /\ response' = NoResponse
    /\ UNCHANGED <<db, next_review_id, next_route_id, overlaps>>

\* db.commit()
DeleteReviewCommit(t) ==
    /\ txn[t].op = "delete_review" /\ txn[t].pc = "commit"
    /\ reviews' = {r \in reviews : r.id # txn[t].target}
    /\ total_reviews' = FlushedTotal(t)
    /\ average_rating' = FlushedAverage(t)
    /\ txn' = [txn EXCEPT ![t] = Idle]
    /\ response' = Resp("delete_review", "DELETED")
    /\ UNCHANGED <<role, is_active, approval_status, is_verified, routes,
                   next_review_id, next_route_id, overlaps>>


(***************************************************************************)
(* Guide routes (main.py save_guide_route, delete_guide_route).            *)
(***************************************************************************)
\* the guide profile of a user, or NoGuide
GuideOfUser(u) ==
    IF \E g \in Guides : GuideOwner[g] = u
    THEN CHOOSE g \in Guides : GuideOwner[g] = u
    ELSE NoGuide

\* a mutation of OwnsGuide: the owning user is left out of the lookup
OwnsGuideAnyone(u, g) == g \in Guides

\* db.query(Guide).filter(Guide.id == guide_id, Guide.user_id ==
\* current_user.id).first() finds a row
OwnsGuide(u, g) == g \in Guides /\ GuideOwner[g] = u

\* the row of guide_routes with id rid is locked by an open session other
\* than t (an uncommitted UPDATE of is_active)
RowLocked(t, rid) ==
    \E o \in Txns \ {t} :
        /\ txn[o].op = "save_route"
        /\ txn[o].pc = "insert"
        /\ rid \in txn[o].deactivated

\* a mutation of DeactivateTargets: no earlier route is deactivated
DeactivateTargetsNone(g) == {}

\* a mutation of DeactivateTargets: the UPDATE is not restricted to the guide
DeactivateTargetsEveryGuide(g) == {r.id : r \in {x \in routes : x.is_active}}

\* step 3: the rows matched by guide_id == guide.id AND is_active == True
DeactivateTargets(g) == {r.id : r \in {x \in routes : x.guide_id = g /\ x.is_active}}

\* a mutation of RoutesAfterClose: the UPDATE of step 3 survives the rollback
RoutesAfterCloseLeaking(t) ==
    {IF r.id \in txn[t].deactivated THEN [r EXCEPT !.is_active = FALSE] ELSE r :
        r \in routes}

\* the committed guide_routes after session t is closed without commit
RoutesAfterClose(t) == routes

\* Point(c.lng, c.lat): a RouteCoordinate <<lat, lng>> as a shape, x = lng and
\* y = lat
ToShape(c) == <<c[2], c[1]>>

\* step 4: start_point = Point(route_data.start_point.lng, ...lat)
StartShape(geo) == ToShape(geo.start_point)

\* step 4: end_point = Point(route_data.end_point.lng, ...lat)
EndShape(geo) == ToShape(geo.end_point)

\* step 4: route_line = LineString([(c.lng, c.lat) for c in coordinates])
LineShape(geo) == [i \in 1..Len(geo.coordinates) |-> ToShape(geo.coordinates[i])]

\* a mutation of ValidRouteCreate: the length of coordinates is not checked
ValidRouteCreateAnyLength(geo) == TRUE

\* GuideRouteCreate: coordinates has min_items=2 and validate_coordinates
\* raises for len(v) < 2; the body is validated before the handler runs
ValidRouteCreate(geo) == Len(geo.coordinates) >= 2

\* body validation, then steps 1-2: role check and guide profile lookup
SaveRouteBegin(t, u, sa, ea, geo, serial) ==
    /\ CanBegin(t, serial)
    /\ Authenticated(u)
    /\ \/ /\ ~ValidRouteCreate(geo)
          /\ response' = Resp("save_guide_route", "VALIDATION_ERROR")
          /\ UNCHANGED txn
       \/ /\ ValidRouteCreate(geo)
          /\ role[u] # "guide"
          /\ response' = Resp("save_guide_route", "NOT_A_GUIDE")
          /\ UNCHANGED txn
       \/ /\ ValidRouteCreate(geo)
          /\ role[u] = "guide"
          /\ GuideOfUser(u) = NoGuide
          /\ response' = Resp("save_guide_route", "GUIDE_PROFILE_NOT_FOUND")
          /\ UNCHANGED txn
       \/ /\ ValidRouteCreate(geo)
          /\ role[u] = "guide"
          /\ GuideOfUser(u) # NoGuide
          /\ txn' = [txn EXCEPT ![t] =
                [Idle EXCEPT !.op = "save_route", !.pc = "deactivate",
                             !.user = u, !.guide_id = GuideOfUser(u),
                             !.start_address = sa, !.end_address = ea,
                             !.geometry = geo]]
          /\ response' = NoResponse
    /\ UNCHANGED <<db, next_review_id, next_route_id>>

\* step 3: UPDATE guide_routes SET is_active = False; the statement takes its
\* snapshot, and then either updates the matched rows or waits for a lock
SaveRouteDeactivate(t) ==
    /\ txn[t].op = "save_route" /\ txn[t].pc = "deactivate"
    /\ LET targets == DeactivateTargets(txn[t].guide_id)
       IN  IF \E rid \in targets : RowLocked(t, rid)
           THEN txn' = [txn EXCEPT ![t].pc = "deactivate_wait",
                                   ![t].deactivated = targets]
           ELSE txn' = [txn EXCEPT ![t].pc = "insert",
                                   ![t].deactivated = targets]
    /\ response' = NoResponse
    /\ UNCHANGED <<db, next_review_id, next_route_id, overlaps>>

\* step 3, resumed once the locks are released: the rows of the snapshot are
\* re-read; rows that are gone or no longer active are skipped, rows inserted
\* since the snapshot are not seen
SaveRouteDeactivateResume(t) ==
    /\ txn[t].op = "save_route" /\ txn[t].pc = "deactivate_wait"
    /\ ~\E rid \in txn[t].deactivated : RowLocked(t, rid)
    /\ txn' = [txn EXCEPT ![t].pc = "insert",
                          ![t].deactivated =
                              txn[t].deactivated \cap DeactivateTargets(txn[t].guide_id)]
    /\ response' = NoResponse
    /\ UNCHANGED <<db, next_review_id, next_route_id, overlaps>>

\* steps 4-5: build the geometry, db.add(new_route), db.commit()
SaveRouteCommit(t) ==
    /\ txn[t].op = "save_route" /\ txn[t].pc = "insert"
    /\ next_route_id <= MaxRoutes
    /\ routes' =
          {IF r.id \in txn[t].deactivated THEN [r EXCEPT !.is_active = FALSE] ELSE r :
              r \in routes}
          \cup {[id |-> next_route_id, guide_id |-> txn[t].guide_id,
                 is_active |-> TRUE, start_address |-> txn[t].start_address,
                 end_address |-> txn[t].end_address,
                 route_line |-> LineShape(txn[t].geometry),
                 start_point |-> StartShape(txn[t].geometry),
                 end_point |-> EndShape(txn[t].geometry),
                 coordinates |-> txn[t].geometry.coordinates]}
    /\ next_route_id' = next_route_id + 1
    /\ txn' = [txn EXCEPT ![t] = Idle]
    /\ response' = Resp("save_guide_route", "CREATED")
    /\ UNCHANGED <<role, is_active, approval_status, is_verified, total_reviews,
                   average_rating, reviews, next_review_id, overlaps>>

\* step 5, except branch: the commit fails, db.rollback(), 500 SAVE_ERROR
SaveRouteError(t) ==
    /\ txn[t].op = "save_route" /\ txn[t].pc = "insert"
    /\ routes' = RoutesAfterClose(t)
    /\ txn' = [txn EXCEPT ![t] = Idle]
    /\ response' = Resp("save_guide_route", "SAVE_ERROR")
    /\ UNCHANGED <<role, is_active, approval_status, is_verified, total_reviews,
                   average_rating, reviews, next_review_id, next_route_id, overlaps>>

\* delete_guide_route: route lookup and ownership check
DeleteRouteBegin(t, u, rid, serial) ==
    /\ CanBegin(t, serial)
    /\ Authenticated(u)
    /\ IF ~\E r \in routes : r.id = rid
       THEN /\ response' = Resp("delete_guide_route", "ROUTE_NOT_FOUND")
            /\ UNCHANGED txn
       ELSE LET route == CHOOSE r \in routes : r.id = rid
            IN  IF ~OwnsGuide(u, route.guide_id)
                THEN /\ response' = Resp("delete_guide_route", "UNAUTHORIZED")
                     /\ UNCHANGED txn
                ELSE /\ txn' = [txn EXCEPT ![t] =
                            [Idle EXCEPT !.op = "delete_route", !.pc = "commit",
                                         !.user = u, !.guide_id = route.guide_id,
                                         !.target = rid]]
                     /\ response' = NoResponse
    /\ UNCHANGED <<db, next_review_id, next_route_id>>

\* the committed reviews that reference the route rid
ReferencingReviews(rid) == {r \in reviews : r.route_id = rid}

\* an open session other than t has inserted a review that references the
\* route rid: with the foreign key its INSERT holds a key lock on the route
RouteKeyHeld(t, rid) ==
    /\ RouteForeignKey
    /\ \E o \in Txns \ {t} : /\ txn[o].op = "create_review"
                              /\ txn[o].pc \in {"recalc", "commit"}
                              /\ txn[o].route_id = rid

\* the reviews after the route rid is deleted: the foreign key nulls the
\* references (ON DELETE SET NULL)
ReviewsAfterRouteDelete(rid) ==
    IF RouteForeignKey
    THEN {IF r.route_id = rid THEN [r EXCEPT !.route_id = NoId] ELSE r : r \in reviews}
    ELSE reviews

\* a mutation of RoutesAfterDelete: the latest remaining route of the guide
\* of the deleted route is made active again
RoutesAfterDeleteReactivating(rid) ==
    LET rest == {r \in routes : r.id # rid}
        gone == {r \in routes : r.id = rid}
    IN  {IF /\ \E d \in gone : d.guide_id = r.guide_id
            /\ \A o \in rest : o.guide_id = r.guide_id => o.id <= r.id
         THEN [r EXCEPT !.is_active = TRUE] ELSE r : r \in rest}

\* db.delete(route): the row is removed and no other row is written
RoutesAfterDelete(rid) == {r \in routes : r.id # rid}

\* db.delete(route); db.commit(): the DELETE waits for a row lock; when
\* reviews reference the route the foreign key either nulls the references
\* or refuses the DELETE (IntegrityError, answered with status 500)
DeleteRouteCommit(t) ==
    /\ txn[t].op = "delete_route" /\ txn[t].pc = "commit"
    /\ ~RowLocked(t, txn[t].target)
    /\ ~RouteKeyHeld(t, txn[t].target)
    /\ \/ /\ routes' = RoutesAfterDelete(txn[t].target)
          /\ reviews' = ReviewsAfterRouteDelete(txn[t].target)
          /\ response' = Resp("delete_guide_route", "DELETED")
       \/ /\ RouteForeignKey
          /\ ReferencingReviews(txn[t].target) # {}
          /\ UNCHANGED <<routes, reviews>>
          /\ response' = Resp("delete_guide_route", "INTEGRITY_ERROR")
    /\ txn' = [txn EXCEPT ![t] = Idle]
    /\ UNCHANGED <<role, is_active, approval_status, is_verified, total_reviews,
                   average_rating, next_review_id, next_route_id, overlaps>>


(***************************************************************************)
(* A request that ends without commit: an unhandled exception or a lost    *)
(* connection at any statement; get_db closes the session, which rolls     *)
(* back every flushed write (database.py get_db, main.py                   *)
(* global_exception_handler).                                              *)
(***************************************************************************)
Abort(t) ==
    /\ txn[t].op # "idle"
    /\ routes' = RoutesAfterClose(t)
    /\ txn' = [txn EXCEPT ![t] = Idle]
    /\ response' = Resp(txn[t].op, "INTERNAL_SERVER_ERROR")
    /\ UNCHANGED <<role, is_active, approval_status, is_verified, total_reviews,
                   average_rating, reviews, next_review_id, next_route_id, overlaps>>

(***************************************************************************)
(* Administration and guide verification (admin.py approve_guide,          *)
(* reject_guide, toggle_user_status; main.py verify_guide_identity;        *)
(* approve_guide.py).  Each handler reads one row and commits one UPDATE.  *)
(***************************************************************************)
\* a request that does not overlap an open session in a serial run
Atomic(serial) == serial => Quiescent

\* verify_admin: current_user.is_admin
VerifyAdmin(a) == IsAdmin(a)

\* a mutation of AwaitsApproval: only an approved guide is refused
AwaitsApprovalUnlessApproved(g) == approval_status[g] # "approved"

\* the negation of: if guide.approval_status != "pending_approval": raise
AwaitsApproval(g) == approval_status[g] = "pending_approval"

\* PUT /admin/guides/{guide_id}/approve
ApproveGuide(a, g, serial) ==
    /\ Atomic(serial)
    /\ Authenticated(a)
    /\ IF ~VerifyAdmin(a)
       THEN /\ response' = Resp("approve_guide", "FORBIDDEN")
            /\ UNCHANGED <<approval_status, is_verified>>
       ELSE IF g \notin Guides
       THEN /\ response' = Resp("approve_guide", "GUIDE_NOT_FOUND")
            /\ UNCHANGED <<approval_status, is_verified>>
       ELSE IF ~AwaitsApproval(g)
       THEN /\ response' = Resp("approve_guide", "INVALID_STATUS")
            /\ UNCHANGED <<approval_status, is_verified>>
       ELSE /\ approval_status' = [approval_status EXCEPT ![g] = "approved"]
            /\ is_verified' = [is_verified EXCEPT ![g] = TRUE]
            /\ response' = Resp("approve_guide", "OK")
    /\ UNCHANGED <<role, is_active, total_reviews, average_rating, reviews, routes,
                   next_review_id, next_route_id, txn, overlaps>>

\* PUT /admin/guides/{guide_id}/reject
RejectGuide(a, g, serial) ==
    /\ Atomic(serial)
    /\ Authenticated(a)
    /\ IF ~VerifyAdmin(a)
       THEN /\ response' = Resp("reject_guide", "FORBIDDEN")
            /\ UNCHANGED <<approval_status, is_verified>>
       ELSE IF g \notin Guides
       THEN /\ response' = Resp("reject_guide", "GUIDE_NOT_FOUND")
            /\ UNCHANGED <<approval_status, is_verified>>
       ELSE IF ~AwaitsApproval(g)
       THEN /\ response' = Resp("reject_guide", "INVALID_STATUS")
            /\ UNCHANGED <<approval_status, is_verified>>
       ELSE /\ approval_status' = [approval_status EXCEPT ![g] = "rejected"]
            /\ is_verified' = [is_verified EXCEPT ![g] = FALSE]
            /\ response' = Resp("reject_guide", "OK")
    /\ UNCHANGED <<role, is_active, total_reviews, average_rating, reviews, routes,
                   next_review_id, next_route_id, txn, overlaps>>

\* PUT /admin/users/{user_id}/toggle-status
ToggleUserStatus(a, u, serial) ==
    /\ Atomic(serial)
    /\ Authenticated(a)
    /\ IF ~VerifyAdmin(a)
       THEN /\ response' = Resp("toggle_user_status", "FORBIDDEN")
            /\ UNCHANGED is_active
       ELSE IF u \notin Users
       THEN /\ response' = Resp("toggle_user_status", "USER_NOT_FOUND")
            /\ UNCHANGED is_active
       ELSE IF u = a
       THEN /\ response' = Resp("toggle_user_status", "SELF_DEACTIVATION")
            /\ UNCHANGED is_active
       ELSE /\ is_active' = [is_active EXCEPT ![u] = ~is_active[u]]
            /\ response' = Resp("toggle_user_status", "OK")
    /\ UNCHANGED <<role, approval_status, is_verified, total_reviews, average_rating,
                   reviews, routes, next_review_id, next_route_id, txn, overlaps>>

\* POST verify_guide_identity with files of an accepted format: the guide
\* profile goes to 'pending_review'
VerifyGuideIdentity(u, serial) ==
    /\ Atomic(serial)
    /\ Authenticated(u)
    /\ IF role[u] # "guide"
       THEN /\ response' = Resp("verify_guide_identity", "NOT_A_GUIDE")
            /\ UNCHANGED approval_status
       ELSE IF GuideOfUser(u) = NoGuide
       THEN /\ response' = Resp("verify_guide_identity", "GUIDE_PROFILE_NOT_FOUND")
            /\ UNCHANGED approval_status
       ELSE IF is_verified[GuideOfUser(u)]
       THEN /\ response' = Resp("verify_guide_identity", "ALREADY_VERIFIED")
            /\ UNCHANGED approval_status
       ELSE /\ approval_status' =
                  [approval_status EXCEPT ![GuideOfUser(u)] = "pending_review"]
            /\ response' = Resp("verify_guide_identity", "OK")
    /\ UNCHANGED <<role, is_active, is_verified, total_reviews, average_rating,
                   reviews, routes, next_review_id, next_route_id, txn, overlaps>>

\* approve_guide.py approve_guide(guide_id): sets approval_status only
ApproveGuideScript(g, serial) ==
    /\ Atomic(serial)
    /\ g \in Guides
    /\ approval_status' = [approval_status EXCEPT ![g] = "approved"]
    /\ response' = Resp("approve_guide.py", "OK")
    /\ UNCHANGED <<role, is_active, is_verified, total_reviews, average_rating,
                   reviews, routes, next_review_id, next_route_id, txn, overlaps>>

(***************************************************************************)
(* Guide profiles as register_user stored them (main.py 227-259); no       *)
(* handler changes these columns.                                          *)
(***************************************************************************)
FullName == [u \in Users |->
    IF u = "u1" THEN <<"A", "b">> ELSE IF u = "u2" THEN <<"b", "a">> ELSE <<"a">>]

Bio == [g \in Guides |-> IF g = "g2" THEN <<"B", "b">> ELSE <<"b", "b">>]

YearsOfExperience == [g \in Guides |-> IF g = "g1" THEN 8 ELSE 2]

\* eco_score=0 at registration, never written afterwards
EcoScore == [g \in Guides |-> 0]

\* the JSON lists of the profile
CitiesCovered == [g \in Guides |->
    IF g = "g1" THEN {"Fes"} ELSE IF g = "g2" THEN {"Fes", "Rabat"} ELSE {"Rabat"}]

Specialties == [g \in Guides |-> IF g = "g2" THEN {"nature"} ELSE {"culture"}]

Languages == [g \in Guides |-> IF g = "g3" THEN {"Francais"} ELSE {"Arabe", "Francais"}]

(***************************************************************************)
(* Text matching: column ILIKE '%' || term || '%'.                         *)
(***************************************************************************)
Lower(c) == IF c = "A" THEN "a" ELSE IF c = "B" THEN "b" ELSE c

\* LIKE over lower-cased text: % matches any run, _ any one character
RECURSIVE LikeMatch(_, _)
LikeMatch(s, p) ==
    IF p = <<>> THEN s = <<>>
    ELSE IF Head(p) = "%"
         THEN LikeMatch(s, Tail(p)) \/ (s # <<>> /\ LikeMatch(Tail(s), p))
         ELSE /\ s # <<>>
              /\ (Head(p) = "_" \/ Lower(Head(s)) = Lower(Head(p)))
              /\ LikeMatch(Tail(s), Tail(p))

\* column.ilike(f"%{term}%"); NULL ILIKE ... is NULL, which a filter drops
ILike(col, term) == col # NullStr /\ LikeMatch(col, <<"%">> \o term \o <<"%">>)

(***************************************************************************)
(* GET /api/v1/search/guides-with-routes (search.py                        *)
(* search_guides_with_routes).                                             *)
(***************************************************************************)
\* User JOIN Guide LEFT JOIN GuideRoute ON guide_id AND is_active: one row
\* per active route of the guide, one row with a NULL route if it has none
JoinedRows ==
    {[guide_id |-> r.guide_id, route_id |-> r.id] : r \in {x \in routes : x.is_active}}
    \cup {[guide_id |-> g, route_id |-> NoId] :
            g \in {h \in Guides : ~\E x \in routes : x.guide_id = h /\ x.is_active}}

RouteOf(row) == CHOOSE r \in routes : r.id = row.route_id

\* the base restriction of search_guides_with_routes
BaseRestriction(row) ==
    /\ role[GuideOwner[row.guide_id]] = "guide"
    /\ approval_status[row.guide_id] = "approved"
    /\ is_active[GuideOwner[row.guide_id]]

\* a mutation of WithoutRouteFilter: routeless guides are always dropped
WithoutRouteFilterAlways(row, p) == row.route_id # NoId

\* if not include_without_route: filter(GuideRoute.id.isnot(None))
WithoutRouteFilter(row, p) == p.include_without_route \/ row.route_id # NoId

\* if route_query: filter(or_(start_address.ilike(..), end_address.ilike(..)))
RouteQueryFilter(row, p) ==
    \/ p.route_query = NullStr
    \/ /\ row.route_id # NoId
       /\ \/ ILike(RouteOf(row).start_address, p.route_query)
          \/ ILike(RouteOf(row).end_address, p.route_query)

\* the filters shared with /search/guides (without the list filters)
GuideFilters(row, p) ==
    /\ p.verified_only => is_verified[row.guide_id]
    /\ p.min_experience # -1 => YearsOfExperience[row.guide_id] >= p.min_experience
    /\ p.min_rating # -1 => average_rating[row.guide_id] >= p.min_rating
    /\ p.min_eco_score # -1 => EcoScore[row.guide_id] >= p.min_eco_score
    /\ p.q # NullStr => \/ ILike(FullName[GuideOwner[row.guide_id]], p.q)
                        \/ ILike(Bio[row.guide_id], p.q)

\* Guide.cities_covered.contains([city]) on a JSON column (no JSONB cast)
\* renders json LIKE text, which PostgreSQL rejects: the query raises
ListFilterRaises(p) ==
    p.city # "none" \/ p.specialty # "none" \/ p.language # "none"

MatchedRows(p) ==
    {row \in JoinedRows : /\ BaseRestriction(row)
                          /\ WithoutRouteFilter(row, p)
                          /\ RouteQueryFilter(row, p)
                          /\ GuideFilters(row, p)}

\* a mutation of SortsBefore: the two sort keys are swapped
SortsBeforeExperienceFirst(a, b) ==
    \/ YearsOfExperience[a.guide_id] > YearsOfExperience[b.guide_id]
    \/ /\ YearsOfExperience[a.guide_id] = YearsOfExperience[b.guide_id]
       /\ average_rating[a.guide_id] >= average_rating[b.guide_id]

\* ORDER BY average_rating DESC, years_of_experience DESC
SortsBefore(a, b) ==
    \/ average_rating[a.guide_id] > average_rating[b.guide_id]
    \/ /\ average_rating[a.guide_id] = average_rating[b.guide_id]
       /\ YearsOfExperience[a.guide_id] >= YearsOfExperience[b.guide_id]

\* every order the database may return: rows equal on both keys in any order
RECURSIVE Orderings(_)
Orderings(S) ==
    IF S = {} THEN {<<>>}
    ELSE UNION {{<<x>> \o rest : rest \in Orderings(S \ {x})} :
                   x \in {y \in S : \A z \in S : SortsBefore(y, z)}}

\* query.offset(offset).limit(limit)
Page(s, p) ==
    IF p.offset >= Len(s) THEN <<>>
    ELSE SubSeq(s, p.offset + 1,
                IF p.offset + p.limit < Len(s) THEN p.offset + p.limit ELSE Len(s))

\* a mutation of ValidPagination: the upper bound of limit is left out
ValidPaginationNoMaximum(p) == p.limit >= 1 /\ p.offset >= 0

\* limit: int = Query(20, ge=1, le=100), offset: int = Query(0, ge=0):
\* FastAPI validates the query parameters before it calls the handler
ValidPagination(p) == p.limit >= 1 /\ p.limit <= 100 /\ p.offset >= 0

\* the SearchRouteResponse list: guide_id and active_route (NoId for null)
ResponseList(s) == [i \in 1..Len(s) |->
    [guide_id |-> s[i].guide_id, active_route |-> s[i].route_id]]

\* every response list the handler may return for the parameters p
SearchResults(p) == {ResponseList(Page(s, p)) : s \in Orderings(MatchedRows(p))}

SearchGuidesWithRoutes(p) ==
    /\ IF ~ValidPagination(p)
       THEN response' = Resp("search_guides_with_routes", "VALIDATION_ERROR")
       ELSE IF ListFilterRaises(p)
       THEN response' = Resp("search_guides_with_routes", "INTERNAL_SERVER_ERROR")
       ELSE \E rows \in SearchResults(p) :
               response' = [Resp("search_guides_with_routes", "OK") EXCEPT !.rows = rows]
    /\ UNCHANGED <<db, next_review_id, next_route_id, txn, overlaps>>


(***************************************************************************)
(* GET /api/v1/search/guides (search.py search_guides).                    *)
(***************************************************************************)
\* User JOIN Guide: one row per guide profile
GuideRows == {[guide_id |-> g, route_id |-> NoId] : g \in Guides}

\* the base restriction of search_guides
BaseRestrictionGuides(row) ==
    /\ role[GuideOwner[row.guide_id]] = "guide"
    /\ is_verified[row.guide_id]
    /\ is_active[GuideOwner[row.guide_id]]

\* column.cast(JSONB).contains([value]): the JSON list holds the value
ListFilters(row, p) ==
    /\ p.city # "none" => p.city \in CitiesCovered[row.guide_id]
    /\ p.specialty # "none" => p.specialty \in Specialties[row.guide_id]
    /\ p.language # "none" => p.language \in Languages[row.guide_id]

MatchedGuides(p) ==
    {row \in GuideRows : /\ BaseRestrictionGuides(row)
                         /\ GuideFilters(row, p)
                         /\ ListFilters(row, p)}

\* the SearchGuideResponse list
GuideList(s) == [i \in 1..Len(s) |-> [guide_id |-> s[i].guide_id]]

\* a mutation of SearchGuidesResults: the ORDER BY is left out
SearchGuidesResultsUnsorted(p) ==
    {GuideList(Page(s, p)) :
        s \in {f \in [1..Cardinality(MatchedGuides(p)) -> MatchedGuides(p)] :
                  \A i, j \in DOMAIN f : i # j => f[i] # f[j]}}

\* every response list the handler may return for the parameters p
SearchGuidesResults(p) == {GuideList(Page(s, p)) : s \in Orderings(MatchedGuides(p))}

SearchGuides(p) ==
    /\ IF ~ValidPagination(p)
       THEN response' = Resp("search_guides", "VALIDATION_ERROR")
       ELSE \E rows \in SearchGuidesResults(p) :
               response' = [Resp("search_guides", "OK") EXCEPT !.rows = rows]
    /\ UNCHANGED <<db, next_review_id, next_route_id, txn, overlaps>>

(***************************************************************************)
(* Route reads (main.py get_guide_route, get_guide_routes_history) and the *)
(* filter catalog (search.py get_available_filters).                       *)
(***************************************************************************)
\* the GuideRouteResponse of a route row
RouteResponse(r) == [guide_id |-> r.guide_id, route_id |-> r.id, is_active |-> r.is_active]

\* GET /api/v1/guides/{guide_id}/route: the first active route of the guide
GetGuideRoute(g, serial) ==
    /\ Atomic(serial)
    /\ IF g \notin Guides
       THEN response' = Resp("get_guide_route", "GUIDE_NOT_FOUND")
       ELSE IF ~\E r \in routes : r.guide_id = g /\ r.is_active
       THEN response' = Resp("get_guide_route", "NO_ACTIVE_ROUTE")
       ELSE \E r \in {x \in routes : x.guide_id = g /\ x.is_active} :
               response' = [Resp("get_guide_route", "OK") EXCEPT !.rows = <<RouteResponse(r)>>]
    /\ UNCHANGED <<db, next_review_id, next_route_id, txn, overlaps>>

\* order_by(GuideRoute.created_at.desc()): the rows of S, latest first;
\* created_at grows with the id of the row
RECURSIVE LatestFirst(_)
LatestFirst(S) ==
    IF S = {} THEN <<>>
    ELSE LET r == CHOOSE x \in S : \A y \in S : y.id <= x.id
         IN  <<r>> \o LatestFirst(S \ {r})

\* the routes of guide g, latest first, cut at limit
HistoryRows(g, limit) ==
    LET s == LatestFirst({r \in routes : r.guide_id = g})
    IN  [i \in 1..(IF limit < Len(s) THEN limit ELSE Len(s)) |-> RouteResponse(s[i])]

\* GET /api/v1/guides/{guide_id}/routes/history: only for the guide itself
GetGuideRoutesHistory(u, g, limit, serial) ==
    /\ Atomic(serial)
    /\ Authenticated(u)
    /\ IF ~OwnsGuide(u, g)
       THEN response' = Resp("get_guide_routes_history", "UNAUTHORIZED")
       ELSE response' = [Resp("get_guide_routes_history", "OK")
                            EXCEPT !.rows = HistoryRows(g, limit)]
    /\ UNCHANGED <<db, next_review_id, next_route_id, txn, overlaps>>

\* the code points of the profile values
CodePoints(v) ==
    CASE v = "Fes"      -> <<70, 101, 115>>
      [] v = "Rabat"    -> <<82, 97, 98, 97, 116>>
      [] v = "culture"  -> <<99, 117, 108, 116, 117, 114, 101>>
      [] v = "nature"   -> <<110, 97, 116, 117, 114, 101>>
      [] v = "Arabe"    -> <<65, 114, 97, 98, 101>>
      [] v = "Francais" -> <<70, 114, 97, 110, 99, 97, 105, 115>>

\* a < b on sequences of code points, as Python compares str values
RECURSIVE SeqLess(_, _)
SeqLess(a, b) ==
    IF b = <<>> THEN FALSE
    ELSE IF a = <<>> THEN TRUE
    ELSE IF Head(a) # Head(b) THEN Head(a) < Head(b)
    ELSE SeqLess(Tail(a), Tail(b))

StrLess(v, w) == SeqLess(CodePoints(v), CodePoints(w))

\* sorted(list(values)) of a set of str
RECURSIVE SortedList(_)
SortedList(S) ==
    IF S = {} THEN <<>>
    ELSE LET m == CHOOSE x \in S : \A y \in S \ {x} : StrLess(x, y)
         IN  <<m>> \o SortedList(S \ {m})

\* a mutation of FilterGuides: the approval filter is left out
FilterGuidesAll == Guides

\* db.query(Guide).filter(Guide.approval_status == "approved").all()
FilterGuides == {g \in Guides : approval_status[g] = "approved"}

\* GET /api/v1/search/filters: the values found on the approved guides
GetAvailableFilters(serial) ==
    /\ Atomic(serial)
    /\ response' = [Resp("get_available_filters", "OK") EXCEPT !.rows =
          <<[cities |-> SortedList(UNION {CitiesCovered[g] : g \in FilterGuides}),
             specialties |-> SortedList(UNION {Specialties[g] : g \in FilterGuides}),
             languages |-> SortedList(UNION {Languages[g] : g \in FilterGuides}),
             total_guides |-> Cardinality(FilterGuides)]>>]
    /\ UNCHANGED <<db, next_review_id, next_route_id, txn, overlaps>>

(***************************************************************************)
(* Inputs of the requests.                                                 *)
(***************************************************************************)
RouteIdInputs  == {NoId, 1}

\* four reviews of guide g1 stored by earlier create_review requests of t2,
\* t3, t4 and t5 (ratings 5, 4, 4, 5); their ids lie below the ids of the
\* rows the run inserts
SeededReviews ==
    {[id |-> -4, guide_id |-> "g1", tourist_id |-> "t2", rating |-> 5, route_id |-> NoId],
     [id |-> -3, guide_id |-> "g1", tourist_id |-> "t3", rating |-> 4, route_id |-> NoId],
     [id |-> -2, guide_id |-> "g1", tourist_id |-> "t4", rating |-> 4, route_id |-> NoId],
     [id |-> -1, guide_id |-> "g1", tourist_id |-> "t5", rating |-> 5, route_id |-> NoId]}

ReviewIdInputs == 1..MaxReviews \cup {r.id : r \in SeededReviews}
RouteIds       == 1..MaxRoutes

\* (start_address, end_address) of a GuideRouteCreate
AddressInputs == {<<<<"A", "b">>, NullStr>>, <<NullStr, <<"b", "b">>>>}

\* RouteCoordinate values <<lat, lng>> (lat in -90..90, lng in -180..180)
Jemaa    == <<31, -8>>
Koutoubia == <<32, -8>>
Majorelle == <<32, -7>>

\* the geometry of a GuideRouteCreate whose start_point and end_point are the
\* ends of its coordinates
DefaultGeometry ==
    [coordinates |-> <<Jemaa, Koutoubia>>, start_point |-> Jemaa, end_point |-> Koutoubia]

\* (coordinates, start_point, end_point) of a GuideRouteCreate: at least two
\* coordinates; the three fields are independent
GeometryInputs ==
    {DefaultGeometry,
     [coordinates |-> <<Jemaa, Koutoubia, Majorelle>>,
      start_point |-> Jemaa, end_point |-> Majorelle],
     [coordinates |-> <<Jemaa, Koutoubia>>, start_point |-> Majorelle, end_point |-> Koutoubia],
     [coordinates |-> <<Jemaa, Koutoubia>>, start_point |-> Jemaa, end_point |-> Jemaa]}

\* two coordinates of identical latitude and longitude
DegenerateGeometry ==
    [coordinates |-> <<Jemaa, Jemaa>>, start_point |-> Jemaa, end_point |-> Jemaa]

\* bodies around the lower bound of coordinates: none, one, two identical,
\* two distinct
CoordinateCountInputs ==
    {[coordinates |-> <<>>, start_point |-> Jemaa, end_point |-> Koutoubia],
     [coordinates |-> <<Jemaa>>, start_point |-> Jemaa, end_point |-> Jemaa],
     DegenerateGeometry,
     DefaultGeometry}

GuideFilterInputs ==
    {NoFilters,
     [NoFilters EXCEPT !.q = <<"a", "b">>],
     [NoFilters EXCEPT !.min_experience = 5],
     [NoFilters EXCEPT !.min_rating = 40],
     [NoFilters EXCEPT !.min_eco_score = 0],
     [NoFilters EXCEPT !.verified_only = TRUE],
     [NoFilters EXCEPT !.city = "Fes"],
     [NoFilters EXCEPT !.specialty = "culture"],
     [NoFilters EXCEPT !.language = "Arabe"],
     [NoFilters EXCEPT !.city = "Rabat", !.min_experience = 2, !.q = <<"b", "b">>]}

\* limit of get_guide_routes_history (default 10)
HistoryLimits == {10, 1}

\* the searches of the runs that cover every handler: no filter, guides
\* without a route left out or included, first page
PlainSearchInputs == {NoFilters, WithoutRouteIncluded}

Pagings == {<<20, 0>>, <<1, 0>>, <<1, 1>>}

\* (limit, offset) on and beyond the bounds of the two parameters, and
\* offsets beyond the number of guides
PagingInputs ==
    {<<20, 0>>, <<1, 0>>, <<100, 0>>, <<0, 0>>, <<101, 0>>, <<20, -1>>, <<20, 5>>}

PagedSearchInputs ==
    {[f EXCEPT !.limit = pg[1], !.offset = pg[2]] :
        f \in PlainSearchInputs,
        pg \in PagingInputs}

SearchGuidesInputs ==
    {[f EXCEPT !.limit = pg[1], !.offset = pg[2]] : f \in GuideFilterInputs, pg \in Pagings}

SearchInputs ==
    {[f EXCEPT !.route_query = rq, !.include_without_route = inc,
               !.limit = pg[1], !.offset = pg[2]] :
        f \in GuideFilterInputs, rq \in {NullStr, <<"a", "b">>, <<"B", "b">>},
        inc \in BOOLEAN, pg \in Pagings}

(***************************************************************************)
(* Initial states: the registered population, g1 approved by an admin, g2  *)
(* approved or still waiting for approval (admin.py approve_guide), g3     *)
(* waiting for approval, no review and no route yet.                       *)
(***************************************************************************)
InitialApprovals ==
    {[g \in Guides |-> IF g = "g3" THEN "pending_approval" ELSE "approved"],
     [g \in Guides |-> IF g = "g1" THEN "approved" ELSE "pending_approval"]}

InitDb ==
    /\ is_active = [u \in Users |-> TRUE]
    /\ approval_status \in InitialApprovals
    /\ is_verified = [g \in Guides |-> approval_status[g] = "approved"]
    /\ total_reviews = [g \in Guides |-> 0]
    /\ average_rating = [g \in Guides |-> 0]
    /\ reviews = {}
    /\ routes = {}
    /\ next_review_id = 1
    /\ next_route_id = 1
    /\ txn = [t \in Txns |-> Idle]
    /\ overlaps = 0
    /\ response = NoResponse

Init ==
    /\ role = [u \in Users |-> RegisteredRole(u)]
    /\ InitDb

\* every guide profile as register_user stored it: is_verified=False,
\* approval_status='pending_approval'
InitRegistered ==
    /\ role = [u \in Users |-> RegisteredRole(u)]
    /\ is_active = [u \in Users |-> TRUE]
    /\ approval_status = [g \in Guides |-> "pending_approval"]
    /\ is_verified = [g \in Guides |-> FALSE]
    /\ total_reviews = [g \in Guides |-> 0]
    /\ average_rating = [g \in Guides |-> 0]
    /\ reviews = {}
    /\ routes = {}
    /\ next_review_id = 1
    /\ next_route_id = 1
    /\ txn = [t \in Txns |-> Idle]
    /\ overlaps = 0
    /\ response = NoResponse

\* users.role is a free text column, not tied to the guide profile, and rows
\* are edited out of band (as the administrator's is): the owner of a guide
\* profile may carry any role
InitAnyRole ==
    /\ role \in {f \in [Users -> {"tourist", "guide", "admin"}] :
                    \A u \in Users \ {"u1", "u2"} : f[u] = RegisteredRole(u)}
    /\ InitDb

\* the state after g1 and g2 were approved and t2, t3, t4 and t5 have rated
\* guide g1 one after the other: total_reviews 4, average_rating
\* round(18/4, 1) = 4.5
InitScenario ==
    /\ role = [u \in Users |-> RegisteredRole(u)]
    /\ is_active = [u \in Users |-> TRUE]
    /\ approval_status = [g \in Guides |-> IF g = "g3" THEN "pending_approval" ELSE "approved"]
    /\ is_verified = [g \in Guides |-> approval_status[g] = "approved"]
    /\ reviews = SeededReviews
    /\ total_reviews = [g \in Guides |-> Cardinality({r \in SeededReviews : r.guide_id = g})]
    /\ average_rating = [g \in Guides |->
          LET S == {r \in SeededReviews : r.guide_id = g}
          IN  IF S = {} THEN 0 ELSE RoundTenths(SumRatings(S), Cardinality(S))]
    /\ routes = {}
    /\ next_review_id = 1
    /\ next_route_id = 1
    /\ txn = [t \in Txns |-> Idle]
    /\ overlaps = 0
    /\ response = NoResponse

(***************************************************************************)
(* Next-state relations.                                                   *)
(***************************************************************************)
ReviewSteps(serial, U, G) ==
    \E t \in Txns :
        \/ \E u \in U, g \in G, rating \in RatingInputs, rid \in RouteIdInputs :
              CreateReviewBegin(t, u, g, rating, rid, serial)
        \/ CreateReviewCheckExisting(t)
        \/ CreateReviewCheckRoute(t)
        \/ CreateReviewFlush(t)
        \/ CreateReviewRecalc(t)
        \/ CreateReviewCommit(t)
        \/ \E u \in U, rid \in ReviewIdInputs : DeleteReviewBegin(t, u, rid, serial)
        \/ DeleteReviewFlush(t)
        \/ DeleteReviewLoadGuide(t)
        \/ DeleteReviewRecalc(t)
        \/ DeleteReviewCommit(t)

\* create_review requests whose route_id is the empty string
EmptyRouteIdReviews(serial, U, G) ==
    \E t \in Txns, u \in U, g \in G, rating \in RatingInputs :
        CreateReviewBegin(t, u, g, rating, EmptyId, serial)

RouteSteps(serial, U, Geo) ==
    \E t \in Txns :
        \/ \E u \in U, a \in AddressInputs, geo \in Geo :
              SaveRouteBegin(t, u, a[1], a[2], geo, serial)
        \/ SaveRouteDeactivate(t)
        \/ SaveRouteCommit(t)
        \/ SaveRouteError(t)
        \/ \E u \in U, rid \in RouteIds : DeleteRouteBegin(t, u, rid, serial)
        \/ DeleteRouteCommit(t)

\* a statement that waited for a row lock goes on
LockWaits == \E t \in Txns : SaveRouteDeactivateResume(t)

Search == \E p \in SearchInputs : SearchGuidesWithRoutes(p)

GuideSearch == \E p \in SearchGuidesInputs : SearchGuides(p)

AdminSteps(serial, A, G, U) ==
    \/ \E a \in A, g \in G : ApproveGuide(a, g, serial)
    \/ \E a \in A, g \in G : RejectGuide(a, g, serial)
    \/ \E a \in A, u \in U : ToggleUserStatus(a, u, serial)
    \/ \E u \in U : VerifyGuideIdentity(u, serial)
    \/ \E g \in G : ApproveGuideScript(g, serial)

\* the two searches with the plain inputs, between two requests
PlainSearch ==
    \/ \E p \in PlainSearchInputs : Quiescent /\ SearchGuidesWithRoutes(p)
    \/ \E p \in PlainSearchInputs : Quiescent /\ SearchGuides(p)

\* the two searches with the paging inputs, between two requests
PagedSearch ==
    \/ \E p \in PagedSearchInputs : Quiescent /\ SearchGuidesWithRoutes(p)
    \/ \E p \in PagedSearchInputs : Quiescent /\ SearchGuides(p)

RouteReads(serial, U, G) ==
    \/ \E g \in G \cup {NoGuide} : GetGuideRoute(g, serial)
    \/ \E u \in U, g \in G, limit \in HistoryLimits :
          GetGuideRoutesHistory(u, g, limit, serial)

Aborts == \E t \in Txns : Abort(t)

Next ==
    \/ ReviewSteps(FALSE, CoreUsers, CoreGuides)
    \/ EmptyRouteIdReviews(FALSE, CoreUsers, CoreGuides)
    \/ RouteSteps(FALSE, CoreUsers, GeometryInputs)
    \/ LockWaits
    \/ AdminSteps(FALSE, Users, Guides, Users)
    \/ Search
    \/ GuideSearch
    \/ RouteReads(FALSE, CoreUsers, CoreGuides)
    \/ GetAvailableFilters(FALSE)
    \/ Aborts

\* the whole system, requests overlapping
Spec == Init /\ [][Next]_vars

\* overlapping review requests of two tourists on guide g1
NextReviews == ReviewSteps(FALSE, {"t1", "t2"}, {"g1"}) \/ Aborts
SpecReviews == Init /\ [][NextReviews]_vars

\* review requests, one at a time: u1, t1, t2 and t3 on guide g1, t1 on
\* guide g2
NextReviewsSerial ==
    \/ ReviewSteps(TRUE, {"u1", "t1", "t2", "t3"}, {"g1"})
    \/ ReviewSteps(TRUE, {"t1"}, {"g2"})
    \/ Aborts
SpecReviewsSerial == Init /\ [][NextReviewsSerial]_vars

\* review requests of u1, u2 and t1, one at a time, when the role column of
\* the guide owners may hold either role
NextReviewsAnyRole == ReviewSteps(TRUE, {"u1", "u2", "t1"}, CoreGuides) \/ Aborts
SpecReviewsAnyRole == InitAnyRole /\ [][NextReviewsAnyRole]_vars

\* route requests, overlapping
NextRoutes == RouteSteps(FALSE, CoreUsers, {DefaultGeometry}) \/ LockWaits \/ Aborts
SpecRoutes == Init /\ [][NextRoutes]_vars

\* route requests and searches, one at a time
NextRoutesSerial == RouteSteps(TRUE, CoreUsers, {DefaultGeometry}) \/ Search \/ Aborts
SpecRoutesSerial == Init /\ [][NextRoutesSerial]_vars

\* review requests of t1 on g1 and route requests of u1 and t1, one at a time
NextWritesSerial ==
    \/ ReviewSteps(TRUE, {"t1"}, {"g1"})
    \/ RouteSteps(TRUE, {"u1", "t1"}, {DefaultGeometry})
    \/ Aborts
SpecWritesSerial == Init /\ [][NextWritesSerial]_vars

\* the two searches, the administration of guide g3 and of its owner u3 and
\* reviews of t1 on g2, one request at a time
NextSearch ==
    \/ AdminSteps(TRUE, {"a1"}, {"g3"}, {"u3"})
    \/ ReviewSteps(TRUE, {"t1"}, {"g2"})
    \/ Search
    \/ GuideSearch
    \/ Aborts
SpecSearch == Init /\ [][NextSearch]_vars

\* review requests of t1, t2 and the administrator on guide g1, one at a
\* time, starting with the four earlier reviews of g1
NextScenario == ReviewSteps(TRUE, {"t1", "t2", "a1"}, {"g1"}) \/ Aborts
SpecScenario == InitScenario /\ [][NextScenario]_vars

\* route requests of u1, u2 and t1 with every modelled geometry, one at a
\* time
NextGeometry == RouteSteps(TRUE, {"u1", "u2", "t1"}, GeometryInputs) \/ Aborts
SpecGeometry == Init /\ [][NextGeometry]_vars

\* every handler, one request at a time, starting with the four earlier
\* reviews of g1: reviews of t1 on g2, routes of u2, reads of u1 and u2, the
\* administration of g3 and u3, the plain searches and the filter catalog
NextHandlers ==
    \/ ReviewSteps(TRUE, {"t1"}, {"g2"})
    \/ RouteSteps(TRUE, {"u2"}, {DefaultGeometry})
    \/ RouteReads(TRUE, {"u1", "u2"}, {"g2"})
    \/ AdminSteps(TRUE, {"a1"}, {"g3"}, {"u3"})
    \/ PlainSearch
    \/ GetAvailableFilters(TRUE)
    \/ Aborts
SpecHandlers == InitScenario /\ [][NextHandlers]_vars

\* route requests and route reads of u1, u2 and t1, one at a time
NextRouteAccess ==
    \/ RouteSteps(TRUE, {"u1", "u2", "t1"}, {DefaultGeometry})
    \/ RouteReads(TRUE, {"u1", "u2", "t1"}, CoreGuides)
    \/ Aborts
SpecRouteAccess == Init /\ [][NextRouteAccess]_vars

\* the two searches with every modelled paging, route requests of u1 and the
\* administration of g2 and u2, one request at a time
NextPaging ==
    \/ RouteSteps(TRUE, {"u1"}, {DefaultGeometry})
    \/ AdminSteps(TRUE, {"a1"}, {"g2"}, {"u2"})
    \/ PagedSearch
    \/ Aborts
SpecPaging == Init /\ [][NextPaging]_vars

\* the filter catalog and the administration of every guide, one request at
\* a time
NextFilters ==
    \/ AdminSteps(TRUE, {"a1"}, Guides, {"u2", "u3"})
    \/ GetAvailableFilters(TRUE)
SpecFilters == Init /\ [][NextFilters]_vars

\* route requests of u1 and t1 with bodies of zero, one and two coordinates,
\* one at a time
NextCoordinateCount == RouteSteps(TRUE, {"u1", "t1"}, CoordinateCountInputs) \/ Aborts
SpecCoordinateCount == Init /\ [][NextCoordinateCount]_vars

\* review requests of u2 and t1 on g2 and on an unknown guide, route requests
\* of u2 and the administration of g2 and u2, one at a time, when the role
\* column of the guide owners may hold either role
NextReviewChecks ==
    \/ ReviewSteps(TRUE, {"u2", "t1"}, {"g2", NoGuide})
    \/ RouteSteps(TRUE, {"u2"}, {DefaultGeometry})
    \/ AdminSteps(TRUE, {"a1"}, {"g2"}, {"u2"})
    \/ Aborts
SpecReviewChecks == InitAnyRole /\ [][NextReviewChecks]_vars

\* review requests of t1 on g1 and g2, with a route_id that is null, 1 or
\* the empty string, and route requests of u1, one at a time
NextReviewRoutes ==
    \/ ReviewSteps(TRUE, {"t1"}, {"g1", "g2"})
    \/ EmptyRouteIdReviews(TRUE, {"t1"}, {"g1", "g2"})
    \/ RouteSteps(TRUE, {"u1"}, {DefaultGeometry})
    \/ Aborts
SpecReviewRoutes == Init /\ [][NextReviewRoutes]_vars

\* route requests and route reads of u1 on g1 and the plain searches, one
\* request at a time
NextRouteLife ==
    \/ RouteSteps(TRUE, {"u1"}, {DefaultGeometry})
    \/ RouteReads(TRUE, {"u1"}, {"g1"})
    \/ PlainSearch
    \/ Aborts
SpecRouteLife == Init /\ [][NextRouteLife]_vars

\* overlapping route requests of u1 on g1 and the plain searches
NextRouteSearch ==
    \/ RouteSteps(FALSE, {"u1"}, {DefaultGeometry})
    \/ LockWaits
    \/ PlainSearch
    \/ Aborts
SpecRouteSearch == Init /\ [][NextRouteSearch]_vars

\* the approval requests of an administrator and of a tourist on every
\* guide and the identity verification of every guide owner and of a
\* tourist, from the registered population
NextApproval ==
    \/ \E a \in {"a1", "t1"}, g \in Guides : ApproveGuide(a, g, TRUE)
    \/ \E a \in {"a1", "t1"}, g \in Guides : RejectGuide(a, g, TRUE)
    \/ \E u \in {"u1", "u2", "u3", "t1"} : VerifyGuideIdentity(u, TRUE)
SpecApproval == InitRegistered /\ [][NextApproval]_vars

(***************************************************************************)
(* Properties.                                                             *)
(***************************************************************************)
ReviewsOf(g) == {r \in reviews : r.guide_id = g}

ActiveRoutesOf(g) == {r \in routes : r.guide_id = g /\ r.is_active}

\* avg (in tenths) is a tenth nearest to sum/cnt
NearestTenth(avg, sum, cnt) ==
    LET d == 10 * sum - avg * cnt
    IN  2 * (IF d < 0 THEN -d ELSE d) <= cnt

\* the stored aggregate of guide g is the aggregate of its stored reviews
AggregateExact(g) ==
    /\ total_reviews[g] = Cardinality(ReviewsOf(g))
    /\ IF ReviewsOf(g) = {}
       THEN average_rating[g] = 0
       ELSE NearestTenth(average_rating[g], SumRatings(ReviewsOf(g)),
                         Cardinality(ReviewsOf(g)))

\* C1: when the review requests run one at a time, in every state each
\* guide's total_reviews is the number of its committed reviews and its
\* average_rating is their mean rounded to one decimal, both 0 when it has
\* no review.
C1_SerialAggregateExact == \A g \in Guides : AggregateExact(g)

\* a delete_review has just committed and left two reviews with mean 4.5
C1_Witness ==
    /\ response = Resp("delete_review", "DELETED")
    /\ \E g \in Guides : /\ Cardinality(ReviewsOf(g)) = 2
                         /\ total_reviews[g] = 2
                         /\ average_rating[g] = 45

\* C2: when rating writes of one guide overlap, then once all of them have
\* ended the guide's total_reviews and average_rating are the count and the
\* rounded mean of its committed reviews.
C2_ConcurrentAggregateConverges == Quiescent => \A g \in Guides : AggregateExact(g)

C4_DuplicateRejected ==
    [][\A t \in Txns :
          (/\ txn[t].op = "create_review" /\ txn[t].pc = "check_existing"
           /\ txn'[t] # txn[t]
           /\ response'.code # "INTERNAL_SERVER_ERROR"
           /\ \E r \in reviews : /\ r.guide_id = txn[t].guide_id
                                 /\ r.tourist_id = txn[t].user)
          => /\ response' = Resp("create_review", "REVIEW_ALREADY_EXISTS")
             /\ txn'[t] = Idle
             /\ UNCHANGED db]_vars

\* a duplicate was answered with 409 and the first review is still there
C4_Witness ==
    /\ response = Resp("create_review", "REVIEW_ALREADY_EXISTS")
    /\ \E g \in Guides : ReviewsOf(g) # {} /\ total_reviews[g] = Cardinality(ReviewsOf(g))

\* C5: when route requests run one at a time, a save_guide_route that
\* succeeds stores a new active route and leaves every other route of the
\* guide inactive, and in every state a guide has at most one active route.
C5_SerialSingleActiveRoute ==
    /\ [](\A g \in Guides : Cardinality(ActiveRoutesOf(g)) <= 1)
    /\ [][(response' = Resp("save_guide_route", "CREATED"))
          => \E n \in routes' \ routes :
                /\ n.id = next_route_id
                /\ n.is_active
                /\ \A r \in routes' :
                      (r.guide_id = n.guide_id /\ r.id # n.id) => ~r.is_active
                /\ \A r \in routes :
                      \E x \in routes' : x.id = r.id /\ x.guide_id = r.guide_id]_vars

\* a second save has replaced the active route of a guide
C5_Witness ==
    /\ response = Resp("save_guide_route", "CREATED")
    /\ \E r1, r2 \in routes : /\ r1.guide_id = r2.guide_id
                              /\ ~r1.is_active
                              /\ r2.is_active

\* C6: when save_guide_route requests of one guide overlap, no committed
\* state holds more than one active route of the guide.
C6_ConcurrentSingleActiveRoute == \A g \in Guides : Cardinality(ActiveRoutesOf(g)) <= 1

\* C7: a step of create_review, delete_review, save_guide_route or
\* delete_guide_route that is not a successful commit (a statement before
\* the commit, an error answer, an interruption) leaves the committed rows
\* of users, guides, reviews and guide_routes as they were before the
\* request.
C7_FailureLeavesCommittedState ==
    [][response'.code \notin {"CREATED", "DELETED"} => UNCHANGED db]_vars

\* a save failed with SAVE_ERROR after its deactivation step and the route
\* it had matched is still active
C7_Witness ==
    /\ response = Resp("save_guide_route", "SAVE_ERROR")
    /\ \E r \in routes : r.is_active
    /\ reviews # {}

\* C8: no create_review of the user who owns the guide profile gets past the
\* checks, and no review of a guide by its owner is ever stored, whatever the
\* role of the caller and the verification state of the guide.
C8_NoSelfReview ==
    /\ \A r \in reviews : r.tourist_id # GuideOwner[r.guide_id]
    /\ \A t \in Txns :
          txn[t].op = "create_review" => txn[t].user # GuideOwner[txn[t].guide_id]

\* a guide owner whose role is "tourist" was refused with SELF_REVIEW
C8_Witness ==
    /\ response = Resp("create_review", "SELF_REVIEW")
    /\ \E g \in Guides : role[GuideOwner[g]] = "tourist" /\ is_verified[g]

\* the guide-level filters of p, as the parameters are documented
SatisfiesGuideFilters(g, p) ==
    /\ GuideFilters([guide_id |-> g, route_id |-> NoId], p)
    /\ p.city # "none" => p.city \in CitiesCovered[g]
    /\ p.specialty # "none" => p.specialty \in Specialties[g]
    /\ p.language # "none" => p.language \in Languages[g]

\* guide g is in every response to p, with active_route = null
ReturnedWithoutRoute(g, p) ==
    /\ ~ListFilterRaises(p)
    /\ \A rows \in SearchResults(p) :
          \E i \in 1..Len(rows) : rows[i] = [guide_id |-> g, active_route |-> NoId]

\* C9: with include_without_route = true, a guide without an active route
\* that satisfies the base restriction and every supplied guide-level filter
\* is on the first page of search_guides_with_routes with active_route =
\* null, also when route_query is supplied.
C9_IncludeWithoutRouteOnlyLever ==
    \A p \in SearchInputs :
        (p.include_without_route /\ p.offset = 0 /\ p.limit = 20) =>
            \A g \in Guides :
                (/\ ActiveRoutesOf(g) = {}
                 /\ BaseRestriction([guide_id |-> g, route_id |-> NoId])
                 /\ SatisfiesGuideFilters(g, p))
                => ReturnedWithoutRoute(g, p)

\* C10: for an approved, active guide without an active route and a search
\* with no other filter: with include_without_route = false every returned
\* record has an active route (so the guide is not returned), with
\* include_without_route = true the guide is returned with active_route =
\* null.
C10_RoutelessGuideByFlag ==
    \A g \in Guides :
        (/\ ActiveRoutesOf(g) = {}
         /\ BaseRestriction([guide_id |-> g, route_id |-> NoId]))
        => /\ \A rows \in SearchResults(NoFilters) :
                 \A i \in 1..Len(rows) :
                     rows[i].active_route # NoId /\ rows[i].guide_id # g
           /\ ReturnedWithoutRoute(g, [NoFilters EXCEPT !.include_without_route = TRUE])

\* a search with include_without_route = true has returned a guide whose
\* only route was replaced or deleted, with active_route = null
C10_Witness ==
    /\ response.op = "search_guides_with_routes"
    /\ response.code = "OK"
    /\ \E i \in 1..Len(response.rows) :
          /\ response.rows[i].active_route = NoId
          /\ ActiveRoutesOf(response.rows[i].guide_id) = {}
          /\ next_route_id > 1

\* the guides of a response list, in order
GuidesOfList(rows) == [i \in 1..Len(rows) |-> rows[i].guide_id]

\* the search parameters f with the given page
WithPage(f, limit, offset) == [f EXCEPT !.limit = limit, !.offset = offset]

\* the parameters f for search_guides_with_routes with no route filter and
\* guides without a route included
WithRoutesAll(f) == [f EXCEPT !.include_without_route = TRUE]

\* the one-record pages r0 and r1 do not name the same guide
PagesDisjoint(r0, r1) == r0 = <<>> \/ r1 = <<>> \/ r0[1].guide_id # r1[1].guide_id

\* C11: for a fixed database state and fixed filters the order of the
\* results of both searches is fully determined, and consecutive pages never
\* repeat a guide.
C11_DeterministicPagination ==
    \A f \in GuideFilterInputs :
        /\ Cardinality(SearchGuidesResults(WithPage(f, 20, 0))) = 1
        /\ \A r0 \in SearchGuidesResults(WithPage(f, 1, 0)),
              r1 \in SearchGuidesResults(WithPage(f, 1, 1)) : PagesDisjoint(r0, r1)
        /\ ~ListFilterRaises(f) =>
              /\ Cardinality(SearchResults(WithPage(WithRoutesAll(f), 20, 0))) = 1
              /\ \A r0 \in SearchResults(WithPage(WithRoutesAll(f), 1, 0)),
                    r1 \in SearchResults(WithPage(WithRoutesAll(f), 1, 1)) :
                        PagesDisjoint(r0, r1)

\* the guides gs are in the order average_rating descending, then
\* years_of_experience descending
SortedGuides(gs) ==
    \A i, j \in 1..Len(gs) :
        i < j => \/ average_rating[gs[i]] > average_rating[gs[j]]
                 \/ /\ average_rating[gs[i]] = average_rating[gs[j]]
                    /\ YearsOfExperience[gs[i]] >= YearsOfExperience[gs[j]]

\* C12: every sequence returned by search_guides and by
\* search_guides_with_routes is ordered by average_rating descending and,
\* among equal average_rating, by years_of_experience descending, in every
\* state and for every filter combination.
C12_ResultsSorted ==
    /\ \A p \in SearchGuidesInputs :
          \A rows \in SearchGuidesResults(p) : SortedGuides(GuidesOfList(rows))
    /\ \A p \in SearchInputs :
          \A rows \in SearchResults(p) : SortedGuides(GuidesOfList(rows))
    /\ response.op \in {"search_guides", "search_guides_with_routes"}
          => SortedGuides(GuidesOfList(response.rows))

\* a search has returned the guide with the better rating and the shorter
\* experience before the guide with the longer experience
C12_Witness ==
    /\ response.code = "OK"
    /\ response.op \in {"search_guides", "search_guides_with_routes"}
    /\ Len(response.rows) >= 2
    /\ average_rating[response.rows[1].guide_id] > average_rating[response.rows[2].guide_id]
    /\ YearsOfExperience[response.rows[1].guide_id]
          < YearsOfExperience[response.rows[2].guide_id]

\* every result list either search may return, as sequences of guides
AllResultLists ==
    {GuidesOfList(rows) : rows \in UNION {SearchGuidesResults(p) : p \in SearchGuidesInputs}}
    \cup {GuidesOfList(rows) : rows \in UNION {SearchResults(p) : p \in SearchInputs}}

\* C13 as stated: for any two consecutive results of a search neither the
\* average_rating nor the years_of_experience of the later result exceeds
\* that of the earlier.
C13_NeitherKeyExceeds ==
    \A gs \in AllResultLists :
        \A i \in 1..(Len(gs) - 1) :
            /\ average_rating[gs[i + 1]] <= average_rating[gs[i]]
            /\ YearsOfExperience[gs[i + 1]] <= YearsOfExperience[gs[i]]

\* C13, amended: for any two consecutive results of a search the
\* average_rating of the later result does not exceed that of the earlier,
\* and when the two ratings are equal the years_of_experience of the later
\* result does not exceed that of the earlier.
C13_ConsecutiveLexicographic ==
    \A gs \in AllResultLists :
        \A i \in 1..(Len(gs) - 1) :
            /\ average_rating[gs[i + 1]] <= average_rating[gs[i]]
            /\ average_rating[gs[i + 1]] = average_rating[gs[i]]
                  => YearsOfExperience[gs[i + 1]] <= YearsOfExperience[gs[i]]

\* search_guides has returned two guides of equal rating, the more
\* experienced one first, while another guide holds a better rating
C13_Witness ==
    /\ response.op = "search_guides"
    /\ Len(response.rows) >= 2
    /\ \E i \in 1..(Len(response.rows) - 1) :
          /\ average_rating[response.rows[i].guide_id]
                = average_rating[response.rows[i + 1].guide_id]
          /\ YearsOfExperience[response.rows[i].guide_id]
                > YearsOfExperience[response.rows[i + 1].guide_id]
    /\ \E g \in Guides : average_rating[g] > 0

\* C14: before sorting and pagination the guides matched by either search
\* are exactly the guides of its base relation that satisfy every supplied
\* filter (search_guides_with_routes taken with no route filter and with
\* guides without a route included).
C14_FiltersExact ==
    \A f \in GuideFilterInputs :
        /\ {row.guide_id : row \in MatchedGuides(f)}
              = {g \in Guides :
                    /\ BaseRestrictionGuides([guide_id |-> g, route_id |-> NoId])
                    /\ SatisfiesGuideFilters(g, f)}
        /\ ~ListFilterRaises(WithRoutesAll(f))
        /\ {row.guide_id : row \in MatchedRows(WithRoutesAll(f))}
              = {g \in Guides :
                    /\ BaseRestriction([guide_id |-> g, route_id |-> NoId])
                    /\ SatisfiesGuideFilters(g, f)}

\* guide g is approved and owned by an active user of role guide
ApprovedActiveGuide(g) ==
    /\ approval_status[g] = "approved"
    /\ role[GuideOwner[g]] = "guide"
    /\ is_active[GuideOwner[g]]

\* C15: in every state every guide returned by either search is approved and
\* owned by an active user of role guide, and the two searches apply the
\* same base restriction: a guide is in the base relation of one exactly when
\* it is in the base relation of the other.
C15_SameBaseRestriction ==
    /\ \A gs \in AllResultLists : \A i \in 1..Len(gs) : ApprovedActiveGuide(gs[i])
    /\ \A g \in Guides :
          BaseRestrictionGuides([guide_id |-> g, route_id |-> NoId])
             <=> BaseRestriction([guide_id |-> g, route_id |-> NoId])

\* the ratings of the reviews of guide g, as a bag: how many reviews carry
\* rating n
RatingCount(g, n) == Cardinality({r \in ReviewsOf(g) : r.rating = n})

\* C16: a guide whose reviews carry the ratings [5,4,4,5,4] has
\* average_rating 4.4 and total_reviews 5, and after delete_review of one
\* review rated 5 (remaining [4,4,5,4], mean 4.25) it has average_rating 4.3
\* and total_reviews 4.
C16_ScenarioAggregates ==
    \A g \in Guides :
        /\ (Quiescent /\ RatingCount(g, 5) = 2 /\ RatingCount(g, 4) = 3
                /\ Cardinality(ReviewsOf(g)) = 5)
              => (average_rating[g] = 44 /\ total_reviews[g] = 5)
        /\ (response = Resp("delete_review", "DELETED")
                /\ RatingCount(g, 5) = 1 /\ RatingCount(g, 4) = 3
                /\ Cardinality(ReviewsOf(g)) = 4)
              => (average_rating[g] = 43 /\ total_reviews[g] = 4)

C18_GeometryFromCoordinates ==
    \A r \in routes :
        /\ Len(r.route_line) = Len(r.coordinates)
        /\ \A i \in 1..Len(r.coordinates) : r.route_line[i] = ToShape(r.coordinates[i])
        /\ r.start_point = ToShape(r.coordinates[1])
        /\ r.end_point = ToShape(r.coordinates[Len(r.coordinates)])

\* the guide whose aggregate the step may write: the guide of the review
\* request that commits in this step, if any
WrittenGuides ==
    {g \in Guides : \E t \in Txns :
        /\ txn[t].op \in {"create_review", "delete_review"}
        /\ txn[t].guide_id = g
        /\ txn'[t] = Idle
        /\ response'.code \in {"CREATED", "DELETED"}}

\* C19: a step of any operation other than create_review and delete_review
\* leaves average_rating and total_reviews of every guide unchanged, and a
\* step of create_review or delete_review on a review of guide G leaves
\* them unchanged for every other guide.
C19_AggregateFrame ==
    [][\A g \in Guides \ WrittenGuides :
          /\ total_reviews'[g] = total_reviews[g]
          /\ average_rating'[g] = average_rating[g]]_vars

\* a route was saved while two guides hold reviews, one of them written by
\* a create_review of the run
C19_Witness ==
    /\ response = Resp("save_guide_route", "CREATED")
    /\ total_reviews["g1"] = 4 /\ average_rating["g1"] = 45
    /\ total_reviews["g2"] = 1 /\ average_rating["g2"] > 0

\* C20: a delete_review of an unknown review_id answers 404 and one of a
\* requester who is neither the author nor an administrator answers 403,
\* both leaving the reviews and the aggregates as they are; a delete_review
\* goes on only for the author or an administrator, and when it succeeds the
\* review is removed and the aggregate of its guide is the aggregate of the
\* remaining reviews.
C20_DeleteReviewAuthorized ==
    /\ [](\A t \in Txns :
            txn[t].op = "delete_review"
            => \E r \in reviews : /\ r.id = txn[t].target
                                  /\ r.guide_id = txn[t].guide_id
                                  /\ (r.tourist_id = txn[t].user \/ IsAdmin(txn[t].user)))
    /\ [][/\ \A t \in Txns, u \in Users, rid \in ReviewIdInputs :
               DeleteReviewBegin(t, u, rid, TRUE)
               => IF ~\E r \in reviews : r.id = rid
                  THEN /\ response' = Resp("delete_review", "REVIEW_NOT_FOUND")
                       /\ UNCHANGED <<db, txn>>
                  ELSE IF \E r \in reviews :
                             r.id = rid /\ r.tourist_id # u /\ ~IsAdmin(u)
                  THEN /\ response' = Resp("delete_review", "FORBIDDEN")
                       /\ UNCHANGED <<db, txn>>
                  ELSE /\ response' = NoResponse
                       /\ UNCHANGED db
          /\ reviews' # reviews /\ reviews' \subseteq reviews
               => response' = Resp("delete_review", "DELETED")
          /\ response' = Resp("delete_review", "DELETED")
               => \E t \in Txns :
                     /\ txn[t].op = "delete_review" /\ txn[t].pc = "commit"
                     /\ reviews' = {r \in reviews : r.id # txn[t].target}
                     /\ reviews' # reviews
                     /\ \E g \in Guides : g = txn[t].guide_id /\ AggregateExact(g)']_vars

\* a delete_review of a tourist who did not write the review was refused and
\* the review is still counted
C20_Witness ==
    /\ response = Resp("delete_review", "FORBIDDEN")
    /\ Cardinality(ReviewsOf("g1")) = 5
    /\ total_reviews["g1"] = 5

\* C21: get_guide_routes_history and delete_guide_route serve only the user
\* who owns the guide of the route(s): a request of any other user on a
\* guide or on a stored route is answered 403 UNAUTHORIZED with no route
\* shown and changes nothing, and a route leaves the table only in a
\* delete_guide_route of the owner of its guide.
C21_OwnerOnly ==
    [][/\ \A t \in Txns, u \in Users, rid \in RouteIds :
             (/\ DeleteRouteBegin(t, u, rid, TRUE)
              /\ \E r \in routes : r.id = rid /\ GuideOwner[r.guide_id] # u)
             => /\ response' = Resp("delete_guide_route", "UNAUTHORIZED")
                /\ UNCHANGED <<db, txn>>
       /\ \A u \in Users, g \in Guides \cup {NoGuide}, limit \in HistoryLimits :
             (/\ GetGuideRoutesHistory(u, g, limit, TRUE)
              /\ ~(g \in Guides /\ GuideOwner[g] = u))
             => /\ response' = Resp("get_guide_routes_history", "UNAUTHORIZED")
                /\ UNCHANGED <<db, txn>>
       /\ (response'.op = "get_guide_routes_history" /\ response'.code = "OK")
             => /\ UNCHANGED <<db, txn>>
                /\ \E g \in Guides :
                      \A i \in DOMAIN response'.rows : response'.rows[i].guide_id = g
       /\ \A r \in routes :
             (~\E x \in routes' : x.id = r.id)
             => \E t \in Txns : /\ txn[t].op = "delete_route"
                                /\ txn[t].target = r.id
                                /\ txn[t].user = GuideOwner[r.guide_id]
                                /\ response'.code = "DELETED"]_vars

\* a user who does not own the guide of a stored route asked to delete it
C21_Witness ==
    /\ response = Resp("delete_guide_route", "UNAUTHORIZED")
    /\ \E r \in routes : r.is_active

\* C22: a search request of either endpoint with limit < 1, limit > 100 or
\* offset < 0 is answered with a validation error and touches nothing; a
\* request with valid paging whose offset is not below the number of matches
\* is answered OK with an empty list.
C22_PagingValidated ==
    [][/\ response'.op = "search_guides"
          => \A p \in PagedSearchInputs :
                SearchGuides(p)
                => IF p.limit < 1 \/ p.limit > 100 \/ p.offset < 0
                   THEN /\ response' = Resp("search_guides", "VALIDATION_ERROR")
                        /\ UNCHANGED <<db, txn>>
                   ELSE p.offset >= Cardinality(MatchedGuides(p))
                           => response' = Resp("search_guides", "OK")
       /\ response'.op = "search_guides_with_routes"
          => \A p \in PagedSearchInputs :
                SearchGuidesWithRoutes(p)
                => IF p.limit < 1 \/ p.limit > 100 \/ p.offset < 0
                   THEN /\ response' = Resp("search_guides_with_routes",
                                            "VALIDATION_ERROR")
                        /\ UNCHANGED <<db, txn>>
                   ELSE (~ListFilterRaises(p) /\ p.offset >= Cardinality(MatchedRows(p)))
                           => response' = Resp("search_guides_with_routes", "OK")]_vars

\* a search that would have matched a guide was rejected for its paging
C22_Witness ==
    /\ response = Resp("search_guides_with_routes", "VALIDATION_ERROR")
    /\ MatchedRows(NoFilters) # {}

\* the elements of a sequence
Range(s) == {s[i] : i \in DOMAIN s}

\* s is in strictly ascending order, hence free of duplicates
StrictlyAscending(s) == \A i \in DOMAIN s : i > 1 => StrLess(s[i - 1], s[i])

\* C23: get_available_filters answers with the cities, the specialties and
\* the languages found on the guides whose approval_status is 'approved',
\* each as a sequence in strictly ascending order (so without duplicates),
\* and with the number of those guides; the request changes no stored state.
C23_FilterCatalog ==
    /\ [](response.op = "get_available_filters"
            => LET approved == {g \in Guides : approval_status[g] = "approved"}
                   body == response.rows[1]
               IN  /\ Range(body.cities) = UNION {CitiesCovered[g] : g \in approved}
                   /\ Range(body.specialties) = UNION {Specialties[g] : g \in approved}
                   /\ Range(body.languages) = UNION {Languages[g] : g \in approved}
                   /\ StrictlyAscending(body.cities)
                   /\ StrictlyAscending(body.specialties)
                   /\ StrictlyAscending(body.languages)
                   /\ body.total_guides = Cardinality(approved))
    /\ [][response'.op = "get_available_filters" => UNCHANGED <<db, txn>>]_vars

\* the catalog of two approved guides that share a city, beside a guide that
\* is not approved
C23_Witness ==
    /\ response.op = "get_available_filters"
    /\ response.rows[1].total_guides = 2
    /\ response.rows[1].cities = <<"Fes", "Rabat">>
    /\ \E g \in Guides : approval_status[g] = "rejected"

\* C24: a save_guide_route request with fewer than 2 coordinates is answered
\* with a validation error and leaves the routes and the sessions as they
\* were; a request of a guide with exactly 2 identical coordinates is taken
\* up, and unless the commit fails it is answered 201 and a new active route
\* with these coordinates is stored.
C24_CoordinateCount ==
    [][/\ \A t \in Txns, u \in Users, a \in AddressInputs, geo \in CoordinateCountInputs :
             SaveRouteBegin(t, u, a[1], a[2], geo, TRUE)
             => IF Len(geo.coordinates) < 2
                THEN /\ response' = Resp("save_guide_route", "VALIDATION_ERROR")
                     /\ UNCHANGED <<db, txn>>
                ELSE (role[u] = "guide" /\ \E g \in Guides : GuideOwner[g] = u)
                        => /\ txn'[t].op = "save_route"
                           /\ txn'[t].geometry = geo
       /\ \A t \in Txns :
             (/\ txn[t].op = "save_route"
              /\ txn[t].geometry.coordinates = <<Jemaa, Jemaa>>
              /\ txn'[t] = Idle
              /\ response'.code \notin {"SAVE_ERROR", "INTERNAL_SERVER_ERROR"})
             => /\ response'.code = "CREATED"
                /\ \E r \in routes' \ routes :
                      /\ r.is_active
                      /\ r.guide_id = txn[t].guide_id
                      /\ r.coordinates = <<Jemaa, Jemaa>>
       /\ \A r \in routes' : Len(r.coordinates) >= 2]_vars

\* a route of two identical coordinates was stored and is active
C24_Witness ==
    /\ response = Resp("save_guide_route", "CREATED")
    /\ \E r \in routes : r.is_active /\ r.coordinates = <<Jemaa, Jemaa>>

RoutesOf(g) == {r \in routes : r.guide_id = g}

\* C25: route operations of different guides are independent: in every
\* interleaving, a step that changes the routes of a guide (adds a row,
\* removes a row, changes is_active or the contents of a row) is the commit
\* of a save_guide_route or delete_guide_route of the user who owns that
\* guide, and it leaves the routes of every other guide as they were.
C25_RoutesOfOtherGuides ==
    [][\A g \in Guides :
          RoutesOf(g)' # RoutesOf(g)
          => /\ \E t \in Txns : /\ txn[t].op \in {"save_route", "delete_route"}
                                /\ txn[t].user = GuideOwner[g]
                                /\ txn[t].guide_id = g
                                /\ txn'[t] = Idle
             /\ \A h \in Guides \ {g} : RoutesOf(h)' = RoutesOf(h)]_vars

\* a save of one guide was committed while a save of another guide was open,
\* and both guides have an active route
C25_Witness ==
    /\ response = Resp("save_guide_route", "CREATED")
    /\ \E t \in Txns : /\ txn[t].op = "save_route"
                       /\ \E r \in routes : r.is_active /\ r.guide_id = txn[t].guide_id
                       /\ \E r \in routes : r.is_active /\ r.guide_id # txn[t].guide_id

\* the outcome of the first three checks of create_review, with the guide
\* check reading the column ok (a function on Guides)
FirstChecks(t, u, g, ok) ==
    IF role[u] # "tourist"
    THEN response' = Resp("create_review", "FORBIDDEN_ROLE") /\ UNCHANGED <<db, txn>>
    ELSE IF ~(g \in Guides /\ ok[g])
    THEN response' = Resp("create_review", "GUIDE_NOT_FOUND") /\ UNCHANGED <<db, txn>>
    ELSE IF GuideOwner[g] = u
    THEN response' = Resp("create_review", "SELF_REVIEW") /\ UNCHANGED <<db, txn>>
    ELSE /\ txn'[t].op = "create_review"
         /\ txn'[t].pc = "check_existing"
         /\ UNCHANGED db

\* the outcome of the checks of the existing review and of the route, and of
\* the steps after them, in a request that is not interrupted
LaterChecks(t) ==
    /\ (/\ txn[t].op = "create_review" /\ txn[t].pc = "check_existing"
        /\ response'.code # "INTERNAL_SERVER_ERROR")
          => IF \E r \in reviews : /\ r.guide_id = txn[t].guide_id
                                   /\ r.tourist_id = txn[t].user
             THEN /\ response' = Resp("create_review", "REVIEW_ALREADY_EXISTS")
                  /\ txn'[t] = Idle
                  /\ UNCHANGED db
             ELSE /\ txn'[t].op = "create_review"
                  /\ UNCHANGED db
    /\ (/\ txn[t].op = "create_review" /\ txn[t].pc = "check_route"
        /\ response'.code # "INTERNAL_SERVER_ERROR")
          => IF ~\E x \in routes : /\ x.id = txn[t].route_id
                                   /\ x.guide_id = txn[t].guide_id
             THEN /\ response' = Resp("create_review", "ROUTE_NOT_FOUND")
                  /\ txn'[t] = Idle
                  /\ UNCHANGED db
             ELSE /\ txn'[t].op = "create_review"
                  /\ UNCHANGED db
    /\ (txn[t].op = "create_review" /\ txn'[t] = Idle /\ response'.code # "CREATED")
          => UNCHANGED db
    /\ (txn[t].op = "create_review" /\ txn'[t] = Idle /\ response'.code = "CREATED")
          => /\ txn[t].pc = "commit"
             /\ \E r \in reviews' \ reviews : /\ r.guide_id = txn[t].guide_id
                                              /\ r.tourist_id = txn[t].user

\* a step in which a create_review request answers or opens its session
BeginsCreateReview ==
    /\ \A t \in Txns : txn[t].op = "idle"
    /\ \/ response'.op = "create_review"
       \/ \E t \in Txns : txn'[t].op = "create_review"

\* C26: create_review applies its checks in the order role, guide (missing
\* or approval_status other than 'approved'), self-review, existing review,
\* route; the first check that fails decides the answer and nothing is
\* written; a review is created only after all of them have passed.
C26_CheckOrder ==
    [][/\ BeginsCreateReview
          => \A t \in Txns, u \in Users, g \in Guides \cup {NoGuide},
                rating \in RatingInputs, rid \in RouteIdInputs :
                CreateReviewBegin(t, u, g, rating, rid, TRUE)
                => FirstChecks(t, u, g, [h \in Guides |-> approval_status[h] = "approved"])
       /\ \A t \in Txns : LaterChecks(t)]_vars

\* the same order with the guide check reading is_verified
C26_CheckOrderVerified ==
    [][/\ BeginsCreateReview
          => \A t \in Txns, u \in Users, g \in Guides \cup {NoGuide},
                rating \in RatingInputs, rid \in RouteIdInputs :
                CreateReviewBegin(t, u, g, rating, rid, TRUE)
                => FirstChecks(t, u, g, is_verified)
       /\ \A t \in Txns : LaterChecks(t)]_vars

\* a create_review session with a route_id that names no route of its guide
\* ends, neither interrupted nor refused for an earlier review
EndsWithoutRoute(t) ==
    /\ txn[t].op = "create_review"
    /\ txn'[t] = Idle
    /\ txn[t].route_id # NoId
    /\ ~\E x \in routes : x.id = txn[t].route_id /\ x.guide_id = txn[t].guide_id
    /\ response'.code \notin {"INTERNAL_SERVER_ERROR", "REVIEW_ALREADY_EXISTS"}

\* C27: a review is stored with a route_id only if, when it is stored, the
\* route exists and belongs to the guide of the review; a create_review
\* whose route_id names no route of its guide (an unknown route, a route of
\* another guide) is answered 404 ROUTE_NOT_FOUND and writes nothing.
C27_ReviewRouteOfGuide ==
    [][/\ \A r \in reviews' \ reviews :
             r.route_id # NoId
             => /\ \E x \in routes : x.id = r.route_id /\ x.guide_id = r.guide_id
                /\ \E x \in routes' : x.id = r.route_id /\ x.guide_id = r.guide_id
       /\ \A t \in Txns :
             EndsWithoutRoute(t)
             => /\ response' = Resp("create_review", "ROUTE_NOT_FOUND")
                /\ UNCHANGED db]_vars

\* the same for the requests whose route_id is not the empty string
C27_NonEmptyRouteOfGuide ==
    [][/\ \A r \in reviews' \ reviews :
             r.route_id # NoId
             => /\ \E x \in routes : x.id = r.route_id /\ x.guide_id = r.guide_id
                /\ \E x \in routes' : x.id = r.route_id /\ x.guide_id = r.guide_id
       /\ \A t \in Txns :
             (EndsWithoutRoute(t) /\ txn[t].route_id # EmptyId)
             => /\ response' = Resp("create_review", "ROUTE_NOT_FOUND")
                /\ UNCHANGED db]_vars

\* C28: with route requests run one at a time, the delete_guide_route of a
\* guide's active route leaves the guide without an active route and makes
\* no other route active; as long as the guide has no active route,
\* get_guide_route answers 404 NO_ACTIVE_ROUTE and search_guides_with_routes
\* with include_without_route = false leaves the guide out, whatever its
\* history holds; only a committed save_guide_route gives it an active route
\* again.
C28_NoReactivation ==
    [][/\ \A t \in Txns :
             (/\ txn[t].op = "delete_route" /\ txn'[t] = Idle
              /\ response'.code = "DELETED"
              /\ \E r \in routes : r.id = txn[t].target /\ r.is_active)
             => /\ ActiveRoutesOf(txn[t].guide_id)' = {}
                /\ \A r \in routes' : r \in routes
       /\ \A g \in Guides :
             (ActiveRoutesOf(g) = {} /\ ActiveRoutesOf(g)' # {})
             => response' = Resp("save_guide_route", "CREATED")
       /\ \A g \in Guides :
             (ActiveRoutesOf(g) = {} /\ GetGuideRoute(g, TRUE))
             => response' = Resp("get_guide_route", "NO_ACTIVE_ROUTE")
       /\ response'.op = "search_guides_with_routes"
          => \A p \in PlainSearchInputs :
                (SearchGuidesWithRoutes(p) /\ ~p.include_without_route)
                => \A i \in DOMAIN response'.rows :
                      ActiveRoutesOf(response'.rows[i].guide_id) # {}]_vars

\* the active route of g1 was deleted, an earlier route is left in its
\* history, and get_guide_route finds no active route
C28_Witness ==
    /\ response = Resp("get_guide_route", "NO_ACTIVE_ROUTE")
    /\ \E r \in routes : r.guide_id = "g1"
    /\ ActiveRoutesOf("g1") = {}
    /\ next_route_id > 2

\* C29: in every reachable state, no guide appears twice in a result of
\* search_guides_with_routes.
C29_GuideAtMostOnce ==
    response.op = "search_guides_with_routes"
    => \A i, j \in DOMAIN response.rows :
          i # j => response.rows[i].guide_id # response.rows[j].guide_id

====
